---------------------------- MODULE Spec2Model ----------------------------
(***************************************************************************)
(* Distributed NDT deployment engine: topology partitioning, partial       *)
(* topology derivation and the deployment orchestrator's registry.         *)
(*                                                                         *)
(* Strings the code takes apart (link endpoints "node:interface", node     *)
(* names, instance ids, topology names) are sequences of one-character     *)
(* strings.  A Python dict is a sequence of [k, v] entries with distinct   *)
(* keys, in insertion order.                                               *)
(***************************************************************************)
EXTENDS Integers, Sequences, FiniteSets, Bags, TLC

VARIABLES
    inp,                 \* the argument tuple of the pure function under study
    out,                 \* what the function returned (kind "none" before the call)
    active_deployments,  \* the registry: topology name -> reference of its record (0: no key)
    heap,                \* the deployment_info objects, by reference
    calls,               \* the frames of the orchestrator calls in flight, a bag
    last,                \* the call that returned most recently, and what it returned
    ncalls,              \* how many calls were started
    client,              \* what the callers do: the names they use, whether they take turns
    trail                \* what the calls of callers that take turns returned, in order

partVars == <<inp, out>>
orchVars == <<active_deployments, heap, calls, last, ncalls, client, trail>>
vars == <<inp, out, active_deployments, heap, calls, last, ncalls, client, trail>>

-----------------------------------------------------------------------------
(* Bounds of the model *)

MaxNodes == 12          \* largest node count given to the partitioners
MaxChunkSize == 3       \* largest non-default max_nodes_per_instance tried
MaxInstances == 3       \* longest available_instances list
MaxLinks == 2           \* longest link list given to the partial-topology code
PartialNodes == 3       \* node count of the topologies given to that code
MaxInFlight == 2        \* orchestrator calls in flight at the same time
MaxCalls == 3           \* orchestrator calls started in one behaviour
OrchNodes == 11         \* node count of the non-empty topology given to deploy
OrchInstances == 2      \* longest available_instances list given to deploy

(* Program constants *)

DefaultMaxNodesPerInstance == 10
SingleInstanceThreshold == 5
nodes_per_instance == 5

-----------------------------------------------------------------------------
(* Text *)

DigitChars == <<"0", "1", "2", "3", "4", "5", "6", "7", "8", "9">>

RECURSIVE Decimal(_)
Decimal(n) ==
    IF n < 10 THEN <<DigitChars[n + 1]>>
    ELSE Decimal(n \div 10) \o <<DigitChars[(n % 10) + 1]>>

NodeName(i) == <<"n">> \o Decimal(i)

Range(s) == {s[i] : i \in DOMAIN s}

Min(a, b) == IF a < b THEN a ELSE b
Max(a, b) == IF a > b THEN a ELSE b

\* ep.split(':')[0]
split_first(ep) ==
    LET colons == {i \in 1..Len(ep) : ep[i] = ":"}
        stop == IF colons = {} THEN Len(ep) + 1
                ELSE CHOOSE i \in colons : \A j \in colons : i <= j
    IN SubSeq(ep, 1, stop - 1)

\* instance_id[-8:]
last8(s) == SubSeq(s, Max(1, Len(s) - 7), Len(s))

-----------------------------------------------------------------------------
(* Python dicts, insertion ordered *)

HasKey(d, k) == \E i \in 1..Len(d) : d[i].k = k

DictGet(d, k) == d[CHOOSE i \in 1..Len(d) : d[i].k = k].v

DictSet(d, k, v) ==
    IF HasKey(d, k)
    THEN [i \in 1..Len(d) |-> IF d[i].k = k THEN [k |-> k, v |-> v] ELSE d[i]]
    ELSE Append(d, [k |-> k, v |-> v])

Keys(d) == [i \in 1..Len(d) |-> d[i].k]

-----------------------------------------------------------------------------
(* Topologies *)

Node(i) == [name |-> NodeName(i), kind |-> "linux"]

NodesUpTo(n) == [i \in 1..n |-> Node(i - 1)]

NodeNames(topology) == [i \in 1..Len(topology.nodes) |-> topology.nodes[i].name]

EmptyTopology == [name |-> <<>>, nodes |-> <<>>, links |-> <<>>]

-----------------------------------------------------------------------------
(* TopologyDistributor.distribute_nodes *)

Raised(what) == [kind |-> "raised", error |-> what, dist |-> <<>>, topo |-> EmptyTopology]
Returned(d) == [kind |-> "dist", error |-> "", dist |-> d, topo |-> EmptyTopology]
ReturnedTopo(t) == [kind |-> "partial", error |-> "", dist |-> <<>>, topo |-> t]
ReturnedTasks(d, tasks) ==
    [kind |-> "tasks", error |-> "", dist |-> d, topo |-> EmptyTopology, tasks |-> tasks]
NoResult == [kind |-> "none", error |-> "", dist |-> <<>>, topo |-> EmptyTopology]

\* a failing variant: an instance taken again starts with an empty list
RECURSIVE distribute_loop_reset(_, _, _, _, _, _)
distribute_loop_reset(nodes, available_instances, max_nodes, i, distribution, instance_index) ==
    IF i >= Len(nodes) THEN Returned(distribution)
    ELSE IF i % max_nodes = 0 /\ instance_index < Len(available_instances)
    THEN LET current_instance == available_instances[instance_index + 1]
         IN distribute_loop_reset(nodes, available_instances, max_nodes, i + 1,
                DictSet(distribution, current_instance, <<nodes[i + 1]>>),
                instance_index + 1)
    ELSE IF Len(available_instances) = 0 THEN Raised("ZeroDivisionError")
    ELSE LET current_instance ==
                 available_instances[((instance_index - 1) % Len(available_instances)) + 1]
         IN IF ~HasKey(distribution, current_instance) THEN Raised("KeyError")
            ELSE distribute_loop_reset(nodes, available_instances, max_nodes, i + 1,
                     DictSet(distribution, current_instance,
                             Append(DictGet(distribution, current_instance), nodes[i + 1])),
                     instance_index)

RECURSIVE distribute_loop(_, _, _, _, _, _)
distribute_loop(nodes, available_instances, max_nodes, i, distribution, instance_index) ==
    IF i >= Len(nodes) THEN Returned(distribution)
    ELSE IF i % max_nodes = 0 /\ instance_index < Len(available_instances)
    THEN LET current_instance == available_instances[instance_index + 1]
             d1 == IF HasKey(distribution, current_instance) THEN distribution
                   ELSE DictSet(distribution, current_instance, <<>>)
             d2 == DictSet(d1, current_instance,
                           Append(DictGet(d1, current_instance), nodes[i + 1]))
         IN distribute_loop(nodes, available_instances, max_nodes, i + 1, d2,
                            instance_index + 1)
    ELSE IF Len(available_instances) = 0 THEN Raised("ZeroDivisionError")
    ELSE LET current_instance ==
                 available_instances[((instance_index - 1) % Len(available_instances)) + 1]
         IN IF ~HasKey(distribution, current_instance) THEN Raised("KeyError")
            ELSE distribute_loop(nodes, available_instances, max_nodes, i + 1,
                     DictSet(distribution, current_instance,
                             Append(DictGet(distribution, current_instance), nodes[i + 1])),
                     instance_index)

distribute_nodes(topology, available_instances, max_nodes) ==
    LET nodes == NodeNames(topology)
    IN IF Len(nodes) = 0 THEN Returned(<<>>)
       ELSE distribute_loop(nodes, available_instances, max_nodes, 0, <<>>, 0)

-----------------------------------------------------------------------------
(* NDTManager.distribute_topology.  selection[j] is what the selector       *)
(* (find_suitable_ec2, else create_ec2_instance) gives for the j-th chunk:  *)
(* an instance id, or SelectorFails when create_ec2_instance raises.        *)

SelectorFails == <<"!">>

RECURSIVE chunk_loop(_, _, _, _)
chunk_loop(node_list, selection, i, distribution) ==
    IF i >= Len(node_list) THEN Returned(distribution)
    ELSE LET batch_nodes == SubSeq(node_list, i + 1,
                                   Min(i + nodes_per_instance, Len(node_list)))
             instance_id == selection[(i \div nodes_per_instance) + 1]
         IN IF instance_id = SelectorFails THEN Raised("HTTPException")
            ELSE chunk_loop(node_list, selection, i + nodes_per_instance,
                            DictSet(distribution, instance_id, batch_nodes))

distribute_topology(topology, selection) ==
    LET node_list == NodeNames(topology)
    IN IF Len(node_list) <= SingleInstanceThreshold
       THEN IF selection[1] = SelectorFails THEN Raised("HTTPException")
            ELSE Returned(<<[k |-> selection[1], v |-> node_list]>>)
       ELSE chunk_loop(node_list, selection, 0, <<>>)

-----------------------------------------------------------------------------
(* TopologyDistributor.create_partial_topology *)

\* keep_link without the len(endpoints) >= 2 guard
keep_link_unguarded(link, assigned_nodes) ==
    \A j \in 1..Min(2, Len(link.endpoints)) :
        split_first(link.endpoints[j]) \in Range(assigned_nodes)

\* keep_link with any() in place of all()
keep_link_any(link, assigned_nodes) ==
    /\ Len(link.endpoints) >= 2
    /\ \E j \in 1..2 : split_first(link.endpoints[j]) \in Range(assigned_nodes)

\* the condition of lines 82-85 for one link
keep_link(link, assigned_nodes) ==
    /\ Len(link.endpoints) >= 2
    /\ LET endpoint_nodes == [j \in 1..2 |-> split_first(link.endpoints[j])]
       IN \A j \in 1..2 : endpoint_nodes[j] \in Range(assigned_nodes)

RECURSIVE filter_links(_, _, _, _)
filter_links(original_links, assigned_nodes, i, partial_links) ==
    IF i > Len(original_links) THEN partial_links
    ELSE filter_links(original_links, assigned_nodes, i + 1,
             IF keep_link(original_links[i], assigned_nodes)
             THEN Append(partial_links, original_links[i])
             ELSE partial_links)

RECURSIVE filter_nodes(_, _, _, _)
filter_nodes(original_nodes, assigned_nodes, i, partial_nodes) ==
    IF i > Len(assigned_nodes) THEN partial_nodes
    ELSE LET hit == {j \in 1..Len(original_nodes) :
                        original_nodes[j].name = assigned_nodes[i]}
         IN filter_nodes(original_nodes, assigned_nodes, i + 1,
                IF hit = {} \/ \E j \in 1..Len(partial_nodes) :
                                  partial_nodes[j].name = assigned_nodes[i]
                THEN partial_nodes
                ELSE Append(partial_nodes, original_nodes[CHOOSE j \in hit : TRUE]))

create_partial_topology(original_topology, assigned_nodes, instance_id) ==
    [name |-> original_topology.name \o <<"-">> \o last8(instance_id),
     nodes |-> filter_nodes(original_topology.nodes, assigned_nodes, 1, <<>>),
     links |-> filter_links(original_topology.links, assigned_nodes, 1, <<>>)]

(* The partial topology NDTManager.deploy_topology_to_instance builds *)

ndt_keep_link(link, nodes) ==
    /\ Len(link.endpoints) >= 2
    /\ \A j \in 1..2 : split_first(link.endpoints[j]) \in Range(nodes)

RECURSIVE ndt_filter_links(_, _, _, _)
ndt_filter_links(all_links, nodes, i, acc) ==
    IF i > Len(all_links) THEN acc
    ELSE ndt_filter_links(all_links, nodes, i + 1,
             IF ndt_keep_link(all_links[i], nodes) THEN Append(acc, all_links[i])
             ELSE acc)

partial_topology_config(topology, nodes, instance_id) ==
    [name |-> topology.name \o <<"-">> \o last8(instance_id),
     nodes |-> filter_nodes(topology.nodes, nodes, 1, <<>>),
     links |-> ndt_filter_links(topology.links, nodes, 1, <<>>)]

-----------------------------------------------------------------------------
(* The pure functions under bounded inputs: Init draws one argument tuple,  *)
(* one action per function applies it.                                      *)

InstanceId(j) == <<"i", "-">> \o Decimal(j)

InstancePool == {InstanceId(j) : j \in 1..MaxInstances}

SeqsUpTo(S, n) == UNION {[1..k -> S] : k \in 0..n}

Endpoint(i) == NodeName(i) \o <<":", "e">>

Link(eps) == [endpoints |-> eps]

\* representative links over the nodes n0, n1, n2: two and three endpoints,
\* fewer than two, an endpoint without ':', one with two ':', an empty node name
LinkPool ==
    { Link(<<Endpoint(0), Endpoint(1)>>),
      Link(<<Endpoint(1), Endpoint(2)>>),
      Link(<<Endpoint(0), Endpoint(1), Endpoint(2)>>),
      Link(<<Endpoint(0)>>),
      Link(<<>>),
      Link(<<NodeName(0), NodeName(1) \o <<":", "e", ":", "x">> >>),
      Link(<<<<":", "e">>, Endpoint(0)>>) }

TopologyNamed(name, n, links) == [name |-> name, nodes |-> NodesUpTo(n), links |-> links]

\* the sequence of the names NodeName(i), i in S, in increasing order of i
RECURSIVE NamesOf(_, _)
NamesOf(S, hi) ==
    IF hi < 0 THEN <<>>
    ELSE NamesOf(S, hi - 1) \o (IF hi \in S THEN <<NodeName(hi)>> ELSE <<>>)

CeilDiv(n, k) == (n + k - 1) \div k

NumChunks(n) == IF n <= SingleInstanceThreshold THEN 1 ELSE CeilDiv(n, nodes_per_instance)

Input(fn, topology, max_nodes, available_instances, selection, assigned_nodes, instance_id) ==
    [fn |-> fn, topology |-> topology, max_nodes |-> max_nodes,
     available_instances |-> available_instances, selection |-> selection,
     assigned_nodes |-> assigned_nodes, instance_id |-> instance_id]

DistributeNodesInputs ==
    { Input("distribute_nodes", TopologyNamed(<<"t">>, n, <<>>), k, a, <<>>, <<>>, <<>>) :
        n \in 0..MaxNodes,
        k \in (1..MaxChunkSize) \cup {DefaultMaxNodesPerInstance},
        a \in SeqsUpTo(InstancePool, MaxInstances) }

DistributeTopologyInputs ==
    UNION { { Input("distribute_topology", TopologyNamed(<<"t">>, n, <<>>), 0, <<>>, s, <<>>, <<>>) :
                s \in [1..NumChunks(n) -> InstancePool \cup {SelectorFails}] } :
            n \in 0..MaxNodes }

PartialInputs ==
    { Input(fn, TopologyNamed(<<"t">>, PartialNodes, ls), 0, <<>>, <<>>,
            NamesOf(S, PartialNodes), InstanceId(1)) :
        fn \in {"create_partial_topology", "partial_topology_config"},
        ls \in SeqsUpTo(LinkPool, MaxLinks),
        S \in SUBSET (0..PartialNodes) }

-----------------------------------------------------------------------------
(* DeploymentOrchestrator: state *)

None == "None"
Now == "now"

Names == {<<"A">>, <<"B">>}

\* references of deployment_info objects: at most one per registry key and
\* one per call in flight are alive
Refs == 1..(Cardinality(Names) + MaxInFlight)

NoRecord == [topology_name |-> <<>>, status |-> None, total_instances |-> 0,
             successful_deployments |-> 0, failed_deployments |-> 0,
             distribution |-> <<>>, tasks |-> <<>>, connectivity_setup |-> None,
             deployed_at |-> None]

\* a deploy call was given a topology of so many nodes
Given(nodes) == [nodes |-> nodes]

NoInput == Given(0)

EmptyFrame ==
    [op |-> "none", name |-> <<>>,
     distribution |-> <<>>, tasks |-> <<>>,
     info |-> 0, awaited |-> <<>>, resolved |-> <<>>, given |-> NoInput]

\* what a call returned: kind "record" with the returned deployment_info as
\* it is at the return, "raised", "absent" (None), "True" or "False"; results is
\* what the call's gather delivered, others the names other than its own that
\* calls in flight at its return work on
\* remote is the sequence of the remote calls the call made before it returned,
\* resolved the keys of the instance_ips that _get_instance_ips gave a deploy call
\* given the size of what a deploy call was given, error what a call raised
Return(op, name, kind, rec, results, others, remote, resolved, given, error) ==
    [op |-> op, name |-> name, kind |-> kind, rec |-> rec, results |-> results,
     others |-> others, remote |-> remote, resolved |-> resolved, given |-> given,
     error |-> error]

NoReturn == Return("none", <<>>, "none", NoRecord, <<>>, {}, <<>>, <<>>, NoInput, "")

\* a failing variant: the lookup of an unknown name raises KeyError
not_found_raises(op, topology_name, others) ==
    Return(op, topology_name, "raised", NoRecord, <<>>, others, <<>>, <<>>, NoInput, "KeyError")

\* lines 453-455 and 489-490: the name is not in active_deployments; destroy
\* returns False and status returns None before any remote call
not_found(op, topology_name, others) ==
    Return(op, topology_name, IF op = "destroy" THEN "False" ELSE "absent", NoRecord, <<>>,
           others, <<>>, <<>>, NoInput, "")

\* one describe_instances, then n dispatches to the deployer
RemoteCalls(dispatch, n) == <<"describe_instances">> \o [i \in 1..n |-> dispatch]

MainNames == {<<"A">>}

\* names: the topology names the callers use; sequential: a call starts after
\* the one before has returned; distinct: no name is deployed twice; recorded:
\* the returns are written to the trail
Callers(names, sequential, distinct, recorded) ==
    [names |-> names, sequential |-> sequential, distinct |-> distinct, recorded |-> recorded]

\* self.active_deployments = {}
OrchInit(callers) ==
    /\ active_deployments = [n \in Names |-> 0]
    /\ heap = [r \in Refs |-> NoRecord]
    /\ calls = EmptyBag
    /\ last = NoReturn
    /\ ncalls = 0
    /\ client = callers
    /\ trail = <<>>

-----------------------------------------------------------------------------
(* Claims about partitioning and partial topologies (under SpecPart) *)

Partitioned == out.kind = "dist" /\ inp.fn = "distribute_topology"

PairwiseDisjoint(d) ==
    /\ \A i, j \in 1..Len(d) : i # j => Range(d[i].v) \cap Range(d[j].v) = {}
    /\ \A i \in 1..Len(d) : \A a, b \in 1..Len(d[i].v) : a # b => d[i].v[a] # d[i].v[b]

Covered(d) == UNION {Range(d[i].v) : i \in 1..Len(d)}

\* C1: for N >= 1 nodes and chunk size K the partitioning returns exactly
\* ceil(N/K) partitions, pairwise disjoint, whose union is the full node set,
\* whichever target the selector returns for each chunk.  (Stated of
\* NDTManager.distribute_topology, whose chunk size is nodes_per_instance.)
C1_PartitionExactCover ==
    (Partitioned /\ Len(inp.topology.nodes) >= 1) =>
        /\ Len(out.dist) = CeilDiv(Len(inp.topology.nodes), nodes_per_instance)
        /\ PairwiseDisjoint(out.dist)
        /\ Covered(out.dist) = Range(NodeNames(inp.topology))

DerivedPartial == out.kind = "partial"

\* nm is the text of ep before its first ':' (all of ep when it has none)
TextBeforeColon(nm, ep) ==
    /\ \A i \in 1..Len(nm) : nm[i] # ":"
    /\ Len(nm) <= Len(ep)
    /\ \A i \in 1..Len(nm) : ep[i] = nm[i]
    /\ (Len(ep) > Len(nm) => ep[Len(nm) + 1] = ":")

NamesNodeIn(ep, S) == \E nm \in S : TextBeforeColon(nm, ep)

ShouldKeep(link, S) ==
    /\ Len(link.endpoints) >= 2
    /\ NamesNodeIn(link.endpoints[1], S)
    /\ NamesNodeIn(link.endpoints[2], S)

KeptIndices(links, S) == {i \in 1..Len(links) : ShouldKeep(links[i], S)}

\* the k-th smallest element of the set of indices I
NthIndex(I, k) == CHOOSE i \in I : Cardinality({j \in I : j < i}) = k - 1

\* C2: the derived partial topology keeps an original link iff it has at least
\* two endpoints and the node names before ':' of its first two endpoints are
\* both assigned; the kept links are in their original relative order.
C2_KeepsExactlyInternalLinks ==
    DerivedPartial =>
        LET links == inp.topology.links
            kept == KeptIndices(links, Range(inp.assigned_nodes))
        IN /\ Len(out.topo.links) = Cardinality(kept)
           /\ \A k \in 1..Len(out.topo.links) : out.topo.links[k] = links[NthIndex(kept, k)]

\* a link was examined, one kept and a later one dropped or kept after a drop
C2_Witness ==
    /\ DerivedPartial
    /\ Len(inp.topology.links) >= 2
    /\ Len(out.topo.links) >= 1
    /\ Len(out.topo.links) < Len(inp.topology.links)
    /\ \E i \in 1..Len(inp.topology.links) :
          /\ Len(inp.topology.links[i].endpoints) >= 2
          /\ ~ShouldKeep(inp.topology.links[i], Range(inp.assigned_nodes))

\* C3 as stated: every endpoint of a retained link, a third or later one
\* included, names a node of the partition.
C3_AllEndpointsInside ==
    DerivedPartial =>
        \A k \in 1..Len(out.topo.links) :
            \A e \in 1..Len(out.topo.links[k].endpoints) :
                NamesNodeIn(out.topo.links[k].endpoints[e], Range(inp.assigned_nodes))

\* C3 amended: the first two endpoints of every retained link name nodes of
\* the partition (endpoints after the second are not examined).
C3_FirstTwoEndpointsInside ==
    DerivedPartial =>
        \A k \in 1..Len(out.topo.links) :
            /\ Len(out.topo.links[k].endpoints) >= 2
            /\ \A e \in 1..2 :
                  NamesNodeIn(out.topo.links[k].endpoints[e], Range(inp.assigned_nodes))

\* a link with three endpoints is retained
C3_Witness ==
    /\ DerivedPartial
    /\ \E k \in 1..Len(out.topo.links) : Len(out.topo.links[k].endpoints) >= 3

-----------------------------------------------------------------------------
(* DeploymentOrchestrator: collaborators and helpers                        *)
(*                                                                          *)
(* All calls run as coroutines of one event loop.  A call gives up control  *)
(* only where it awaits asyncio.gather over a non-empty list of coroutines: *)
(* _get_instance_ips, setup_inter_instance_connectivity and the deployer's  *)
(* methods contain no await of their own and run to completion inline, and  *)
(* gather over an empty list is already done.  The gathered coroutines use  *)
(* nothing of the orchestrator's state, so their results are drawn when the *)
(* call that awaits them resumes.                                           *)

\* what describe_instances tells about one requested instance: not in the
\* response, in it without any address, in it with an address
IpStates == {"absent", None, "addr"}

\* the same for the status and destroy calls and the mesh builder, to which
\* an instance without address is like one whose connection fails
Presence == {"absent", "addr"}

\* a describe_instances response for the ids (a raising call ends like a
\* response naming none of them)
Responses(instance_ids, states) ==
    {[i \in 1..Len(instance_ids) |-> [k |-> instance_ids[i], v |-> f[i]]] :
        f \in [1..Len(instance_ids) -> states]}

RECURSIVE get_instance_ips_loop(_, _, _)
get_instance_ips_loop(response, i, instance_ips) ==
    IF i > Len(response) THEN instance_ips
    ELSE get_instance_ips_loop(response, i + 1,
             IF response[i].v = "absent" THEN instance_ips
             ELSE DictSet(instance_ips, response[i].k, response[i].v))

\* DeploymentOrchestrator._get_instance_ips
get_instance_ips(response) == get_instance_ips_loop(response, 1, <<>>)

DeploymentTask(instance_id, topology_name, nodes, topology_config, started_at) ==
    [instance_id |-> instance_id, topology_name |-> topology_name, nodes |-> nodes,
     topology_config |-> topology_config, status |-> "pending",
     started_at |-> started_at, completed_at |-> None, error_message |-> None]

\* a failing variant: the loop ends at the first partition without an entry
RECURSIVE build_tasks_break(_, _, _, _, _)
build_tasks_break(topology, distribution, instance_ips, i, deployment_tasks) ==
    IF i > Len(distribution) THEN deployment_tasks
    ELSE LET instance_id == distribution[i].k
             nodes == distribution[i].v
             partial_topology == create_partial_topology(topology, nodes, instance_id)
         IN IF ~HasKey(instance_ips, instance_id) THEN deployment_tasks
            ELSE build_tasks_break(topology, distribution, instance_ips, i + 1,
                     Append(deployment_tasks,
                            DeploymentTask(instance_id, partial_topology.name, nodes,
                                           partial_topology, Now)))

\* lines 348-368: one task per partition whose instance has an entry in instance_ips
RECURSIVE build_tasks(_, _, _, _, _)
build_tasks(topology, distribution, instance_ips, i, deployment_tasks) ==
    IF i > Len(distribution) THEN deployment_tasks
    ELSE LET instance_id == distribution[i].k
             nodes == distribution[i].v
             partial_topology == create_partial_topology(topology, nodes, instance_id)
         IN build_tasks(topology, distribution, instance_ips, i + 1,
                IF ~HasKey(instance_ips, instance_id) THEN deployment_tasks
                ELSE Append(deployment_tasks,
                            DeploymentTask(instance_id, partial_topology.name, nodes,
                                           partial_topology, Now)))

-----------------------------------------------------------------------------
(* The pure functions applied to bounded inputs *)

\* deploys of a topology of PartialNodes nodes and some links, with chunks
\* small enough to give several partitions
BuildTasksInputs ==
    { Input("build_tasks", TopologyNamed(<<"t">>, PartialNodes, ls), k,
            [i \in 1..a |-> InstanceId(i)], <<>>, <<>>, <<>>) :
        ls \in SeqsUpTo(LinkPool, MaxLinks),
        k \in 1..MaxChunkSize,
        a \in 0..MaxInstances }

PartInit ==
    /\ \/ inp \in DistributeNodesInputs
       \/ inp \in DistributeTopologyInputs
       \/ inp \in PartialInputs
       \/ inp \in BuildTasksInputs
    /\ out = NoResult
    /\ OrchInit(Callers(MainNames, FALSE, FALSE, FALSE))

ApplyDistributeNodes ==
    /\ inp.fn = "distribute_nodes" /\ out.kind = "none"
    /\ out' = distribute_nodes(inp.topology, inp.available_instances, inp.max_nodes)
    /\ UNCHANGED <<inp, orchVars>>

ApplyDistributeTopology ==
    /\ inp.fn = "distribute_topology" /\ out.kind = "none"
    /\ out' = distribute_topology(inp.topology, inp.selection)
    /\ UNCHANGED <<inp, orchVars>>

ApplyCreatePartialTopology ==
    /\ inp.fn = "create_partial_topology" /\ out.kind = "none"
    /\ out' = ReturnedTopo(create_partial_topology(inp.topology, inp.assigned_nodes,
                                                   inp.instance_id))
    /\ UNCHANGED <<inp, orchVars>>

ApplyPartialTopologyConfig ==
    /\ inp.fn = "partial_topology_config" /\ out.kind = "none"
    /\ out' = ReturnedTopo(partial_topology_config(inp.topology, inp.assigned_nodes,
                                                   inp.instance_id))
    /\ UNCHANGED <<inp, orchVars>>

\* deployment_manager.py lines 339-368: the partitions of the topology, the
\* addresses of their instances, and one task with its partial topology for
\* every partition whose instance has an entry in instance_ips
ApplyBuildTasks ==
    /\ inp.fn = "build_tasks" /\ out.kind = "none"
    /\ LET d == distribute_nodes(inp.topology, inp.available_instances, inp.max_nodes)
       IN IF d.kind = "raised" THEN out' = d
          ELSE IF d.dist = <<>> THEN out' = Raised("Exception")
          ELSE \E response \in Responses(Keys(d.dist), IpStates) :
                 out' = ReturnedTasks(d.dist,
                            build_tasks(inp.topology, d.dist, get_instance_ips(response),
                                        1, <<>>))
    /\ UNCHANGED <<inp, orchVars>>

PartNext ==
    \/ ApplyBuildTasks
    \/ ApplyDistributeNodes
    \/ ApplyDistributeTopology
    \/ ApplyCreatePartialTopology
    \/ ApplyPartialTopologyConfig

SpecPart == PartInit /\ [][PartNext]_vars

-----------------------------------------------------------------------------

\* what the remote side of a deploy can do
DeployOutcomes == {"exit0", "exit_nonzero"}

\* ContainerlabDeployer.deploy_topology: connecting to no address fails
deploy_topology(instance_ip, outcome) ==
    IF instance_ip = None \/ outcome = "ssh_error" THEN "False"
    ELSE IF outcome = "exit_nonzero" THEN "False"
    ELSE "True"

DestroyOutcomes == {"exit0", "ssh_error"}

\* ContainerlabDeployer.destroy_topology
destroy_topology(instance_ip, outcome) ==
    IF instance_ip = None \/ outcome = "ssh_error" THEN "False" ELSE "True"

StatusOutcomes == {"inspect_json", "ssh_error"}

\* ContainerlabDeployer.get_topology_status: the 'status' of the dict returned
get_topology_status(instance_ip, outcome) ==
    IF instance_ip = None \/ outcome = "ssh_error" THEN "error"
    ELSE IF outcome = "no_file" THEN "not_deployed"
    ELSE IF outcome = "inspect_json" THEN "deployed"
    ELSE "unknown"

\* process_results with the loop abandoned at the first failure: the tasks
\* after it are all marked failed
RECURSIVE process_results_abort(_, _, _, _)
process_results_abort(tasks, deployment_results, i, acc) ==
    IF i > Len(deployment_results) THEN acc
    ELSE LET task == [tasks[i] EXCEPT !.completed_at = Now]
             bad == acc.failed > 0 \/ deployment_results[i] # "True"
         IN process_results_abort(tasks, deployment_results, i + 1,
                [tasks |-> Append(acc.tasks,
                                  [task EXCEPT !.status = IF bad THEN "failed" ELSE "completed"]),
                 successful |-> acc.successful + (IF bad THEN 0 ELSE 1),
                 failed |-> acc.failed + (IF bad THEN 1 ELSE 0)])

\* a failing variant: a dispatch that returned False marks its task failed
\* without counting it
RECURSIVE process_results_uncounted(_, _, _, _)
process_results_uncounted(tasks, deployment_results, i, acc) ==
    IF i > Len(deployment_results) THEN acc
    ELSE LET task == [tasks[i] EXCEPT !.completed_at = Now]
             result == deployment_results[i]
         IN process_results_uncounted(tasks, deployment_results, i + 1,
                IF result = "True"
                THEN [tasks |-> Append(acc.tasks, [task EXCEPT !.status = "completed"]),
                      successful |-> acc.successful + 1, failed |-> acc.failed]
                ELSE [tasks |-> Append(acc.tasks, [task EXCEPT !.status = "failed"]),
                      successful |-> acc.successful, failed |-> acc.failed])

\* lines 377-394
RECURSIVE process_results(_, _, _, _)
process_results(tasks, deployment_results, i, acc) ==
    IF i > Len(deployment_results)
    THEN [acc EXCEPT !.tasks = acc.tasks \o SubSeq(tasks, i, Len(tasks))]
    ELSE LET task == [tasks[i] EXCEPT !.completed_at = Now]
             result == deployment_results[i]
         IN process_results(tasks, deployment_results, i + 1,
                IF result = "Exception"
                THEN [tasks |-> Append(acc.tasks,
                                       [task EXCEPT !.status = "failed",
                                                    !.error_message = "str(result)"]),
                      successful |-> acc.successful, failed |-> acc.failed + 1]
                ELSE IF result = "True"
                THEN [tasks |-> Append(acc.tasks, [task EXCEPT !.status = "completed"]),
                      successful |-> acc.successful + 1, failed |-> acc.failed]
                ELSE [tasks |-> Append(acc.tasks, [task EXCEPT !.status = "failed"]),
                      successful |-> acc.successful, failed |-> acc.failed + 1])

\* NetworkConnector.setup_inter_instance_connectivity, its return value: the
\* pair loop reads instance_ips[id] of every id, a KeyError for an id the
\* response does not name; the tunnel commands' own failures are swallowed
setup_inter_instance_connectivity(deployment_info, response) ==
    LET instance_ids == Keys(deployment_info)
    IN IF Len(instance_ids) <= 1 THEN "True"
       ELSE IF \E i \in 1..Len(response) : response[i].v = "absent" THEN "False"
       ELSE "True"

\* line 398: the condition under which the orchestrator calls the mesh builder
mesh_called(distribution, successful_deployments) == Len(distribution) > 1

\* what describe_instances answers to the mesh builder, when it is called
MeshResponses(distribution) ==
    IF Len(distribution) > 1 THEN Responses(Keys(distribution), Presence) ELSE {<<>>}

\* 'success' if successful == len(distribution) else 'partial'
overall_status_by_success(successful_deployments, failed_deployments, total_instances) ==
    IF successful_deployments = total_instances THEN "success" ELSE "partial"

\* line 406
overall_status(successful_deployments, failed_deployments, total_instances) ==
    IF failed_deployments = 0 THEN "success" ELSE "partial"

\* lines 377-414: the deployment_info of a deploy call whose gather delivered
\* deployment_results; mesh_response is what describe_instances answers to
\* the mesh builder
deployment_info_of(topology_name, distribution, deployment_tasks, deployment_results, mesh_response) ==
    LET done == process_results(deployment_tasks, deployment_results, 1,
                                [tasks |-> <<>>, successful |-> 0, failed |-> 0])
        connectivity_setup ==
            IF mesh_called(distribution, done.successful)
            THEN setup_inter_instance_connectivity(distribution, mesh_response)
            ELSE "True"
    IN [topology_name |-> topology_name,
        status |-> overall_status(done.successful, done.failed, Len(distribution)),
        total_instances |-> Len(distribution),
        successful_deployments |-> done.successful,
        failed_deployments |-> done.failed,
        distribution |-> distribution,
        tasks |-> done.tasks,
        connectivity_setup |-> connectivity_setup,
        deployed_at |-> Now]

\* for task in deployment_info['tasks']: if task.instance_id in instance_ips
RECURSIVE awaited_for(_, _, _, _)
awaited_for(tasks, instance_ips, i, acc) ==
    IF i > Len(tasks) THEN acc
    ELSE awaited_for(tasks, instance_ips, i + 1,
             IF HasKey(instance_ips, tasks[i].instance_id)
             THEN Append(acc, [task |-> i, ip |-> DictGet(instance_ips, tasks[i].instance_id)])
             ELSE acc)

\* lines 511-513: statuses[i] is written to deployment_info['tasks'][i]
RECURSIVE update_statuses(_, _, _)
update_statuses(tasks, statuses, i) ==
    IF i > Len(statuses) THEN tasks
    ELSE update_statuses(
             IF statuses[i] = "Exception" THEN tasks
             ELSE [tasks EXCEPT ![i].status = statuses[i]],
             statuses, i + 1)

\* await asyncio.gather(*tasks, return_exceptions=True): every dispatch runs to
\* its own result, and the results come back in the order of the dispatches.
\* A dispatch touches nothing of the orchestrator, so the dispatches' steps
\* are taken together with the resumption of the call that awaits them.
\* a failing variant: the call goes on when the first dispatch has its result
gather_deploy_first_completed(awaited, outcomes) ==
    [i \in 1..Min(1, Len(awaited)) |-> deploy_topology(awaited[i].ip, outcomes[i])]

gather_deploy(awaited, outcomes) ==
    [i \in 1..Len(awaited) |-> deploy_topology(awaited[i].ip, outcomes[i])]

gather_status(awaited, outcomes) ==
    [i \in 1..Len(awaited) |-> get_topology_status(awaited[i].ip, outcomes[i])]

gather_destroy(awaited, outcomes) ==
    [i \in 1..Len(awaited) |-> destroy_topology(awaited[i].ip, outcomes[i])]

\* objects that neither the registry nor a suspended call refers to are gone
Live(r, reg, cs) ==
    \/ \E n \in Names : reg[n] = r
    \/ \E f \in BagToSet(cs) : f.info = r

Collect(h, reg, cs) == [r \in Refs |-> IF Live(r, reg, cs) THEN h[r] ELSE NoRecord]

FreshRef == CHOOSE r \in Refs :
                /\ ~Live(r, active_deployments, calls)
                /\ \A q \in Refs : q < r => Live(q, active_deployments, calls)

OtherNames(cs, name) == {f.name : f \in BagToSet(cs)} \ {name}

\* the call returns r to its caller
Returns(r) ==
    /\ last' = r
    /\ trail' = IF client.recorded
                THEN Append(trail, [op |-> r.op, name |-> r.name, kind |-> r.kind])
                ELSE trail

Suspend(f) == calls (+) SetToBag({f})

Resume(f) == calls (-) SetToBag({f})

Suspended(f) == f \in BagToSet(calls)

\* a request is accepted while fewer than MaxInFlight calls are in flight
CanStart ==
    /\ ncalls < MaxCalls
    /\ BagCardinality(calls) < MaxInFlight
    /\ client.sequential => calls = EmptyBag

-----------------------------------------------------------------------------
(* DeploymentOrchestrator.deploy_distributed_topology *)

OrchLinks(n) ==
    IF n < 2 THEN <<>>
    ELSE <<Link(<<Endpoint(0), Endpoint(1)>>), Link(<<Endpoint(n - 2), Endpoint(n - 1)>>)>>

DeployTopologies(names) ==
    {TopologyNamed(name, n, OrchLinks(n)) : name \in names, n \in {0, OrchNodes}}

DeployInstanceLists == {[i \in 1..k |-> InstanceId(i)] : k \in 0..OrchInstances}

\* a failing variant: the registry is replaced by one holding this record only
StoreAndReturn_alone(cs, topology_name, deployment_info, deployment_results, resolved, given) ==
    LET r == FreshRef
        reg == [n \in Names |-> IF n = topology_name THEN r ELSE 0]
    IN /\ active_deployments' = reg
       /\ calls' = cs
       /\ heap' = Collect([heap EXCEPT ![r] = deployment_info], reg, cs)
       /\ Returns(Return("deploy", topology_name, "record", deployment_info,
                          deployment_results,
                          OtherNames(cs, topology_name),
                          RemoteCalls("deploy_topology", Len(deployment_results)) \o
                          (IF mesh_called(deployment_info.distribution,
                                          deployment_info.successful_deployments)
                           THEN <<"setup_inter_instance_connectivity">> ELSE <<>>),
                          resolved, given, ""))

\* a failing variant: the mesh builder is called before the dispatches are awaited
StoreAndReturn_mesh_first(cs, topology_name, deployment_info, deployment_results, resolved, given) ==
    LET r == FreshRef
        reg == [active_deployments EXCEPT ![topology_name] = r]
    IN /\ active_deployments' = reg
       /\ calls' = cs
       /\ heap' = Collect([heap EXCEPT ![r] = deployment_info], reg, cs)
       /\ Returns(Return("deploy", topology_name, "record", deployment_info,
                          deployment_results,
                          OtherNames(cs, topology_name),
                          <<"describe_instances">> \o
                          (IF mesh_called(deployment_info.distribution,
                                          deployment_info.successful_deployments)
                           THEN <<"setup_inter_instance_connectivity">> ELSE <<>>) \o
                          [i \in 1..Len(deployment_results) |-> "deploy_topology"],
                          resolved, given, ""))

\* a failing variant: a deploy with a failed partition raises and stores nothing
StoreAndReturn_all_or_nothing(cs, topology_name, deployment_info, deployment_results, resolved, given) ==
    IF deployment_info.failed_deployments > 0 \/ deployment_info.connectivity_setup = "False"
    THEN /\ calls' = cs
         /\ heap' = Collect(heap, active_deployments, cs)
         /\ UNCHANGED active_deployments
         /\ Returns(Return("deploy", topology_name, "raised", NoRecord, deployment_results,
                            OtherNames(cs, topology_name),
                            RemoteCalls("deploy_topology", Len(deployment_results)),
                            resolved, given, "Exception"))
    ELSE LET r == FreshRef
             reg == [active_deployments EXCEPT ![topology_name] = r]
         IN /\ active_deployments' = reg
            /\ calls' = cs
            /\ heap' = Collect([heap EXCEPT ![r] = deployment_info], reg, cs)
            /\ Returns(Return("deploy", topology_name, "record", deployment_info,
                               deployment_results, OtherNames(cs, topology_name),
                               RemoteCalls("deploy_topology", Len(deployment_results)),
                               resolved, given, ""))

\* lines 403-418: store the record under the topology name and return it
StoreAndReturn(cs, topology_name, deployment_info, deployment_results, resolved, given) ==
    LET r == FreshRef
        reg == [active_deployments EXCEPT ![topology_name] = r]
    IN /\ active_deployments' = reg
       /\ calls' = cs
       /\ heap' = Collect([heap EXCEPT ![r] = deployment_info], reg, cs)
       /\ Returns(Return("deploy", topology_name, "record", deployment_info,
                          deployment_results,
                          OtherNames(cs, topology_name),
                          RemoteCalls("deploy_topology", Len(deployment_results)) \o
                          (IF mesh_called(deployment_info.distribution,
                                          deployment_info.successful_deployments)
                           THEN <<"setup_inter_instance_connectivity">> ELSE <<>>),
                          resolved, given, ""))

\* a failing variant: an empty distribution is deployed like any other
not_distributed_ignored(distribution) == FALSE

\* line 341: if not distribution
not_distributed(distribution) == Len(distribution) = 0

\* line 342
NoNodesError == "No nodes to distribute or no available instances"

\* a failing variant: the except clause drops the entry of the name
LogAndRaise_drops_entry(topology_name, given, error) ==
    LET reg == [active_deployments EXCEPT ![topology_name] = 0]
    IN /\ Returns(Return("deploy", topology_name, "raised", NoRecord, <<>>,
                          OtherNames(calls, topology_name), <<>>, <<>>, given, error))
       /\ active_deployments' = reg
       /\ heap' = Collect(heap, reg, calls)
       /\ UNCHANGED calls

\* lines 420-422: the exception is logged and raised again; the registry is
\* written only at line 416, which a call that raises has not reached
LogAndRaise(topology_name, given, error) ==
    /\ Returns(Return("deploy", topology_name, "raised", NoRecord, <<>>,
                       OtherNames(calls, topology_name), <<>>, <<>>, given, error))
    /\ UNCHANGED <<active_deployments, heap, calls>>

\* lines 335-375: up to the await of the gathered dispatches
DeployStart ==
    /\ CanStart
    /\ ncalls' = ncalls + 1
    /\ UNCHANGED partVars
    /\ \E topology \in DeployTopologies(client.names), available_instances \in DeployInstanceLists :
         LET topology_name == topology.name
             d == distribute_nodes(topology, available_instances, DefaultMaxNodesPerInstance)
         IN /\ client' = IF client.distinct
                         THEN [client EXCEPT !.names = @ \ {topology_name}]
                         ELSE client
            /\ IF d.kind = "raised" \/ not_distributed(d.dist)
               THEN LogAndRaise(topology_name, Given(Len(topology.nodes)),
                                IF d.kind = "raised" THEN d.error ELSE NoNodesError)
               ELSE \E response \in Responses(Keys(d.dist), IpStates) :
                      LET instance_ips == get_instance_ips(response)
                          deployment_tasks == build_tasks(topology, d.dist, instance_ips, 1, <<>>)
                      IN IF Len(deployment_tasks) = 0
                         THEN \E mesh_response \in MeshResponses(d.dist) :
                                StoreAndReturn(calls, topology_name,
                                    deployment_info_of(topology_name, d.dist, deployment_tasks,
                                                       <<>>, mesh_response), <<>>,
                                    Keys(instance_ips),
                                    Given(Len(topology.nodes)))
                         ELSE /\ calls' = Suspend(
                                     [EmptyFrame EXCEPT
                                        !.op = "deploy", !.name = topology_name,
                                        !.distribution = d.dist,
                                        !.tasks = deployment_tasks,
                                        !.resolved = Keys(instance_ips),
                                        !.given = Given(Len(topology.nodes)),
                                        !.awaited = awaited_for(deployment_tasks, instance_ips,
                                                                1, <<>>)])
                              /\ UNCHANGED <<active_deployments, heap, last, trail>>

\* a resumed deploy call working on locals that all deploy calls share: it
\* finds those of another call in flight, if there is one
deploy_frame_shared(f) ==
    IF \E g \in BagToSet(calls) : g.op = "deploy" /\ g # f
    THEN CHOOSE g \in BagToSet(calls) : g.op = "deploy" /\ g # f
    ELSE f

\* the frame a resumed deploy call works on: its own local variables
deploy_frame(f) == f

\* lines 377-418: after the gather
DeployResume(f) ==
    /\ f.op = "deploy" /\ Suspended(f)
    /\ \E outcomes \in [1..Len(f.awaited) -> DeployOutcomes],
          mesh_response \in MeshResponses(f.distribution) :
         LET g == deploy_frame(f)
             deployment_results == gather_deploy(g.awaited, outcomes)
         IN StoreAndReturn(Resume(f), g.name,
                deployment_info_of(g.name, g.distribution, g.tasks, deployment_results,
                                   mesh_response),
                deployment_results, g.resolved, g.given)
    /\ UNCHANGED <<partVars, ncalls, client>>

-----------------------------------------------------------------------------
(* DeploymentOrchestrator.get_deployment_status *)

\* lines 489-508: up to the await of the gathered polls
StatusStart ==
    /\ CanStart
    /\ ncalls' = ncalls + 1
    /\ UNCHANGED client
    /\ UNCHANGED <<partVars, active_deployments, heap>>
    /\ \E topology_name \in client.names :
         IF active_deployments[topology_name] = 0
         THEN /\ Returns(not_found("status", topology_name, OtherNames(calls, topology_name)))
              /\ UNCHANGED calls
         ELSE LET info == active_deployments[topology_name]
                  deployment_info == heap[info]
              IN \E response \in Responses(Keys(deployment_info.distribution), Presence) :
                   LET instance_ips == get_instance_ips(response)
                       status_tasks == awaited_for(deployment_info.tasks, instance_ips, 1, <<>>)
                   IN IF Len(status_tasks) = 0
                      THEN /\ Returns(Return("status", topology_name, "record",
                                              deployment_info, <<>>,
                                              OtherNames(calls, topology_name),
                                              RemoteCalls("get_topology_status", 0),
                                              <<>>, NoInput, ""))
                           /\ UNCHANGED calls
                      ELSE /\ calls' = Suspend(
                                  [EmptyFrame EXCEPT
                                     !.op = "status", !.name = topology_name,
                                     !.info = info, !.awaited = status_tasks])
                           /\ UNCHANGED <<last, trail>>

\* lines 510-515: after the gather
StatusResume(f) ==
    /\ f.op = "status" /\ Suspended(f)
    /\ \E outcomes \in [1..Len(f.awaited) -> StatusOutcomes] :
         LET statuses == gather_status(f.awaited, outcomes)
             deployment_info == [heap[f.info] EXCEPT
                                    !.tasks = update_statuses(@, statuses, 1)]
             cs == Resume(f)
         IN /\ calls' = cs
            /\ heap' = Collect([heap EXCEPT ![f.info] = deployment_info],
                               active_deployments, cs)
            /\ Returns(Return("status", f.name, "record", deployment_info, statuses,
                               OtherNames(cs, f.name),
                               RemoteCalls("get_topology_status", Len(statuses)),
                               <<>>, NoInput, ""))
    /\ UNCHANGED <<partVars, active_deployments, ncalls, client>>

-----------------------------------------------------------------------------
(* DeploymentOrchestrator.destroy_deployment *)

\* a failing variant: the KeyError of the del is not caught
RemoveAndReturn_raises(cs, topology_name, dispatched) ==
    IF active_deployments[topology_name] = 0
    THEN /\ calls' = cs
         /\ heap' = Collect(heap, active_deployments, cs)
         /\ Returns(Return("destroy", topology_name, "raised", NoRecord, <<>>,
                            OtherNames(cs, topology_name),
                            RemoteCalls("destroy_topology", dispatched), <<>>, NoInput,
                            "KeyError"))
         /\ UNCHANGED active_deployments
    ELSE LET reg == [active_deployments EXCEPT ![topology_name] = 0]
         IN /\ active_deployments' = reg
            /\ calls' = cs
            /\ heap' = Collect(heap, reg, cs)
            /\ Returns(Return("destroy", topology_name, "True", NoRecord, <<>>,
                               OtherNames(cs, topology_name),
                               RemoteCalls("destroy_topology", dispatched), <<>>, NoInput, ""))

\* a destroy that returns True and leaves the entry where it is
RemoveAndReturn_keeps(cs, topology_name, dispatched) ==
    /\ calls' = cs
    /\ heap' = Collect(heap, active_deployments, cs)
    /\ Returns(Return("destroy", topology_name, "True", NoRecord, <<>>,
                       OtherNames(cs, topology_name),
                       RemoteCalls("destroy_topology", dispatched), <<>>, NoInput, ""))
    /\ UNCHANGED active_deployments

\* lines 478-485: del self.active_deployments[topology_name]; a KeyError is
\* caught by the except clause, which returns False
RemoveAndReturn(cs, topology_name, dispatched) ==
    IF active_deployments[topology_name] = 0
    THEN /\ calls' = cs
         /\ heap' = Collect(heap, active_deployments, cs)
         /\ Returns(Return("destroy", topology_name, "False", NoRecord, <<>>,
                            OtherNames(cs, topology_name),
                            RemoteCalls("destroy_topology", dispatched), <<>>, NoInput, ""))
         /\ UNCHANGED active_deployments
    ELSE LET reg == [active_deployments EXCEPT ![topology_name] = 0]
         IN /\ active_deployments' = reg
            /\ calls' = cs
            /\ heap' = Collect(heap, reg, cs)
            /\ Returns(Return("destroy", topology_name, "True", NoRecord, <<>>,
                               OtherNames(cs, topology_name),
                               RemoteCalls("destroy_topology", dispatched), <<>>, NoInput, ""))

\* lines 453-476: up to the await of the gathered destroys
DestroyStart ==
    /\ CanStart
    /\ ncalls' = ncalls + 1
    /\ UNCHANGED client
    /\ UNCHANGED partVars
    /\ \E topology_name \in client.names :
         IF active_deployments[topology_name] = 0
         THEN /\ Returns(not_found("destroy", topology_name, OtherNames(calls, topology_name)))
              /\ UNCHANGED <<active_deployments, heap, calls>>
         ELSE LET info == active_deployments[topology_name]
                  deployment_info == heap[info]
              IN \E response \in Responses(Keys(deployment_info.distribution), Presence) :
                   LET instance_ips == get_instance_ips(response)
                       destroy_tasks == awaited_for(deployment_info.tasks, instance_ips, 1, <<>>)
                   IN IF Len(destroy_tasks) = 0
                      THEN RemoveAndReturn(calls, topology_name, 0)
                      ELSE /\ calls' = Suspend(
                                  [EmptyFrame EXCEPT
                                     !.op = "destroy", !.name = topology_name,
                                     !.info = info, !.awaited = destroy_tasks])
                           /\ UNCHANGED <<active_deployments, heap, last, trail>>

\* lines 478-481: after the gather, whose results are not looked at
DestroyResume(f) ==
    /\ f.op = "destroy" /\ Suspended(f)
    /\ RemoveAndReturn(Resume(f), f.name, Len(f.awaited))
    /\ UNCHANGED <<partVars, ncalls, client>>

-----------------------------------------------------------------------------

Init ==
    /\ inp = Input("none", EmptyTopology, 0, <<>>, <<>>, <<>>, <<>>)
    /\ out = NoResult
    /\ OrchInit(Callers(MainNames, FALSE, FALSE, FALSE))

\* the event loop resumes any call whose gather is done
DeployResumes == \E f \in BagToSet(calls) : DeployResume(f)

StatusResumes == \E f \in BagToSet(calls) : StatusResume(f)

DestroyResumes == \E f \in BagToSet(calls) : DestroyResume(f)

Next ==
    \/ DeployStart
    \/ StatusStart
    \/ DestroyStart
    \/ DeployResumes
    \/ StatusResumes
    \/ DestroyResumes

\* callers of one name, any of their calls in flight together
Spec == Init /\ [][Next]_vars

\* callers of one name who start a call after the one before has returned
SeqInit ==
    /\ inp = Input("none", EmptyTopology, 0, <<>>, <<>>, <<>>, <<>>)
    /\ out = NoResult
    /\ OrchInit(Callers(MainNames, TRUE, FALSE, TRUE))

SpecSeq == SeqInit /\ [][Next]_vars

\* callers who deploy under two names, any of their calls in flight together
TwoInit ==
    /\ inp = Input("none", EmptyTopology, 0, <<>>, <<>>, <<>>, <<>>)
    /\ out = NoResult
    /\ OrchInit(Callers(Names, FALSE, TRUE, FALSE))

TwoNext ==
    \/ DeployStart
    \/ DeployResumes

SpecTwo == TwoInit /\ [][TwoNext]_vars

\* the records a deploy of the topology of OrchNodes nodes leaves in the
\* registry: one for every instance list, answer of describe_instances,
\* outcome of the dispatches and answer to the mesh builder
DeployedRecords(topology_name) ==
    UNION {
      LET topology == TopologyNamed(topology_name, OrchNodes, OrchLinks(OrchNodes))
          d == distribute_nodes(topology, available_instances, DefaultMaxNodesPerInstance)
      IN UNION {
           LET instance_ips == get_instance_ips(response)
               deployment_tasks == build_tasks(topology, d.dist, instance_ips, 1, <<>>)
               awaited == awaited_for(deployment_tasks, instance_ips, 1, <<>>)
           IN {deployment_info_of(topology_name, d.dist, deployment_tasks,
                                  gather_deploy(awaited, outcomes), mesh_response) :
                  outcomes \in [1..Len(awaited) -> DeployOutcomes],
                  mesh_response \in MeshResponses(d.dist)}
           : response \in Responses(Keys(d.dist), IpStates)}
      : available_instances \in DeployInstanceLists \ {<<>>}}

\* callers who destroy a name that a deploy has registered, any of their
\* calls in flight together; their returns are written to the trail
DestroysInit ==
    /\ inp = Input("none", EmptyTopology, 0, <<>>, <<>>, <<>>, <<>>)
    /\ out = NoResult
    /\ \E deployment_info \in DeployedRecords(<<"A">>) :
         /\ active_deployments = [n \in Names |-> IF n = <<"A">> THEN 1 ELSE 0]
         /\ heap = [r \in Refs |-> IF r = 1 THEN deployment_info ELSE NoRecord]
    /\ calls = EmptyBag
    /\ last = NoReturn
    /\ ncalls = 0
    /\ client = Callers(MainNames, FALSE, FALSE, TRUE)
    /\ trail = <<>>

DestroysNext ==
    \/ DestroyStart
    \/ DestroyResumes

SpecDestroys == DestroysInit /\ [][DestroysNext]_vars

-----------------------------------------------------------------------------
(* Claims about the orchestrator's registry and calls                        *)

\* the deployment_info objects the registry holds
RegistryRecords ==
    {heap[active_deployments[n]] : n \in {m \in Names : active_deployments[m] # 0}}

\* the step is the return of the suspended call f
ReturnOf(f) == f \in BagToSet(calls) /\ calls' = calls (-) SetToBag({f})

\* C4: when callers take turns, after a destroy of a name has returned, every
\* status of that name reports it absent and every further destroy of it
\* reports not found, until a deploy of that name is called again.
C4_DestroyLeavesNoRecord ==
    \A i \in 1..Len(trail), j \in 1..Len(trail) :
        ( /\ i < j
          /\ trail[i].op = "destroy"
          /\ trail[j].name = trail[i].name
          /\ trail[j].op \in {"status", "destroy"}
          /\ \A k \in (i + 1)..(j - 1) :
                ~(trail[k].op = "deploy" /\ trail[k].name = trail[i].name) )
        => trail[j].kind \in {"absent", "False"}

\* a deploy that stored a record, the destroy of it, and a second destroy
C4_Witness ==
    /\ Len(trail) = 3
    /\ trail[1] = [op |-> "deploy", name |-> <<"A">>, kind |-> "record"]
    /\ trail[2] = [op |-> "destroy", name |-> <<"A">>, kind |-> "True"]
    /\ trail[3] = [op |-> "destroy", name |-> <<"A">>, kind |-> "False"]
    /\ active_deployments[<<"A">>] = 0

\* C5: the status of every deployment record, in the registry or just
\* returned by a deploy, is "success" if its failed count is 0 and "partial"
\* if not; no other label occurs.
C5_StatusLabel ==
    \A rec \in RegistryRecords \cup
               (IF last.op = "deploy" /\ last.kind = "record" THEN {last.rec} ELSE {}) :
        /\ rec.status \in {"success", "partial"}
        /\ rec.status = "success" <=> rec.failed_deployments = 0

\* a record of two dispatches that both failed
C5_Witness ==
    \E rec \in RegistryRecords :
        /\ Len(rec.tasks) = 2
        /\ rec.total_instances = 2
        /\ rec.successful_deployments = 0
        /\ rec.failed_deployments = 2
        /\ rec.status = "partial"

\* the calls between their read of the registry entry of n and their write
\* to it: status calls and destroy calls suspended at their gather
InWindow(n) == {f \in BagToSet(calls) : f.name = n /\ f.op \in {"status", "destroy"}}

\* C6: no two calls are at once between their first read of one name's
\* registry entry and their last write to it.
C6_MutualExclusion ==
    \A n \in Names :
        /\ Cardinality(InWindow(n)) <= 1
        /\ \A f \in InWindow(n) : CopiesIn(f, calls) = 1

\* the records a suspended deploy call produces from its own partition map
\* and task list, whatever its dispatches and the mesh builder answer
AloneRecords(f) ==
    {deployment_info_of(f.name, f.distribution, f.tasks, gather_deploy(f.awaited, outcomes),
                        mesh_response) :
        outcomes \in [1..Len(f.awaited) -> DeployOutcomes],
        mesh_response \in MeshResponses(f.distribution)}

\* C7: with deploy calls of different names in flight together, a step changes
\* the registry entry of the returning call's name only, leaves the records of
\* the other names as they are, and the record a resumed call stores under
\* its name is one that call produces from its own partition map and tasks.
C7_DeploysDoNotInterfere ==
    [][ /\ \A n \in Names :
             active_deployments'[n] # active_deployments[n]
             => last'.op = "deploy" /\ last'.name = n
        /\ \A f \in BagToSet(calls) :
             (f.op = "deploy" /\ ReturnOf(f))
             => /\ \A n \in Names \ {f.name} :
                     /\ active_deployments'[n] = active_deployments[n]
                     /\ active_deployments[n] # 0
                        => heap'[active_deployments[n]] = heap[active_deployments[n]]
                /\ active_deployments'[f.name] # 0
                /\ heap'[active_deployments'[f.name]] \in AloneRecords(f)
                /\ last'.rec = heap'[active_deployments'[f.name]] ]_vars

\* a deploy that was suspended returns its record while a deploy of the other
\* name is in flight
C7_Witness ==
    /\ last.op = "deploy" /\ last.kind = "record"
    /\ Len(last.results) = 2
    /\ last.others # {}
    /\ \E f \in BagToSet(calls) : f.op = "deploy" /\ f.name # last.name
    /\ active_deployments[last.name] # 0

TaskStatuses == {"pending", "running", "completed", "failed"}

\* C8: every task of every record in the registry has a status among
\* pending, running, completed, failed.
C8_TaskStatusInEnumeration ==
    \A rec \in RegistryRecords :
        \A i \in 1..Len(rec.tasks) : rec.tasks[i].status \in TaskStatuses

\* one step of the task state machine, or none
Advances(s, t) ==
    \/ s = t
    \/ s = "pending" /\ t = "running"
    \/ s = "running" /\ t \in {"completed", "failed"}

\* C9: the status of a task changes only from pending to running and from
\* running to completed or failed; this holds for the tasks of a deploy call
\* from their creation to the stored record, and for the tasks of every record
\* afterwards.
C9_StatusOnlyAdvances ==
    [][ /\ \A r \in Refs :
             (heap[r] # NoRecord /\ heap'[r] # NoRecord)
             => \A i \in 1..Len(heap[r].tasks) :
                    Advances(heap[r].tasks[i].status, heap'[r].tasks[i].status)
        /\ \A f \in BagToSet(calls) :
             (f.op = "deploy" /\ ReturnOf(f))
             => \A i \in 1..Len(f.tasks) :
                    Advances(f.tasks[i].status, last'.rec.tasks[i].status) ]_vars

\* C10: when a suspended deploy call returns, it returns a record; the record
\* has the call's tasks in their order, every dispatch has delivered a result,
\* and every task is completed if its own dispatch returned true and failed
\* if not.
C10_DispatchIsolation ==
    [][ \A f \in BagToSet(calls) :
          (f.op = "deploy" /\ ReturnOf(f))
          => /\ last'.op = "deploy" /\ last'.kind = "record"
             /\ Len(last'.results) = Len(f.tasks)
             /\ Len(last'.rec.tasks) = Len(f.tasks)
             /\ \A i \in 1..Len(f.tasks) :
                  /\ last'.results[i] \in {"True", "False"}
                  /\ last'.rec.tasks[i].instance_id = f.tasks[i].instance_id
                  /\ last'.rec.tasks[i].status =
                        IF last'.results[i] = "True" THEN "completed" ELSE "failed" ]_vars

\* a deploy returned a record whose first dispatch failed and whose second
\* succeeded
C10_Witness ==
    /\ last.op = "deploy" /\ last.kind = "record"
    /\ last.results = <<"False", "True">>
    /\ last.rec.tasks[1].status = "failed"
    /\ last.rec.tasks[2].status = "completed"

-----------------------------------------------------------------------------
(* NetworkConnector.setup_inter_instance_connectivity in detail             *)

MaxMeshTargets == 3     \* instances handed to the mesh builder

NoAddr == [kind |-> "none", of |-> 0]

PublicIp(j) == [kind |-> "public", of |-> j]

PrivateIp(j) == [kind |-> "private", of |-> j]

\* what describe_instances tells the mesh builder about the j-th instance:
\* whether the response names it, and the addresses it has
Described(j) ==
    {[present |-> "False", public_ip |-> NoAddr, private_ip |-> NoAddr]} \cup
    {[present |-> "True", public_ip |-> pub, private_ip |-> priv] :
        pub \in {NoAddr, PublicIp(j)}, priv \in {NoAddr, PrivateIp(j)}}

\* lines 249-255: instance_ips[instance_id] = {'public_ip': ..., 'private_ip': ...}
RECURSIVE mesh_instance_ips(_, _, _, _)
mesh_instance_ips(instance_ids, described, i, instance_ips) ==
    IF i > Len(instance_ids) THEN instance_ips
    ELSE mesh_instance_ips(instance_ids, described, i + 1,
             IF described[i].present = "True"
             THEN DictSet(instance_ips, instance_ids[i],
                          [public_ip |-> described[i].public_ip,
                           private_ip |-> described[i].private_ip])
             ELSE instance_ips)

\* lines 273-289: the two commands of the pair (i, j), indices counted from 0
pair_commands(instance_ids, instance_ips, i, j) ==
    LET instance_id_1 == instance_ids[i + 1]
        instance_id_2 == instance_ids[j + 1]
        ip1 == DictGet(instance_ips, instance_id_1).private_ip
        ip2 == DictGet(instance_ips, instance_id_2).private_ip
        cmd1 == [tunnel |-> <<"g", "r", "e", "-">> \o last8(instance_id_2),
                 remote |-> ip2, local |-> ip1, addr |-> <<192, 168, i + 1, 1>>]
        cmd2 == [tunnel |-> <<"g", "r", "e", "-">> \o last8(instance_id_1),
                 remote |-> ip1, local |-> ip2, addr |-> <<192, 168, i + 1, 2>>]
    IN <<[on |-> instance_id_1, public_ip |-> DictGet(instance_ips, instance_id_1).public_ip,
          command |-> cmd1],
         [on |-> instance_id_2, public_ip |-> DictGet(instance_ips, instance_id_2).public_ip,
          command |-> cmd2]>>

\* the pair loop visiting every ordered pair, a pair of an instance with
\* itself included
RECURSIVE tunnel_pairs_loop_all(_, _, _, _, _)
tunnel_pairs_loop_all(instance_ids, instance_ips, i, j, tunnel_commands) ==
    IF i >= Len(instance_ids) THEN [kind |-> "ok", tunnel_commands |-> tunnel_commands]
    ELSE IF j >= Len(instance_ids)
    THEN tunnel_pairs_loop_all(instance_ids, instance_ips, i + 1, 0, tunnel_commands)
    ELSE IF ~HasKey(instance_ips, instance_ids[i + 1]) \/ ~HasKey(instance_ips, instance_ids[j + 1])
    THEN [kind |-> "KeyError", tunnel_commands |-> tunnel_commands]
    ELSE tunnel_pairs_loop_all(instance_ids, instance_ips, i, j + 1,
             tunnel_commands \o pair_commands(instance_ids, instance_ips, i, j))

\* lines 261-289: for i, id1 in enumerate(ids): for j, id2 in enumerate(ids[i+1:], i+1)
RECURSIVE tunnel_pairs_loop(_, _, _, _, _)
tunnel_pairs_loop(instance_ids, instance_ips, i, j, tunnel_commands) ==
    IF i >= Len(instance_ids) THEN [kind |-> "ok", tunnel_commands |-> tunnel_commands]
    ELSE IF j >= Len(instance_ids)
    THEN tunnel_pairs_loop(instance_ids, instance_ips, i + 1, i + 2, tunnel_commands)
    ELSE IF ~HasKey(instance_ips, instance_ids[i + 1]) \/ ~HasKey(instance_ips, instance_ids[j + 1])
    THEN [kind |-> "KeyError", tunnel_commands |-> tunnel_commands]
    ELSE LET ip1 == DictGet(instance_ips, instance_ids[i + 1]).private_ip
             ip2 == DictGet(instance_ips, instance_ids[j + 1]).private_ip
         IN tunnel_pairs_loop(instance_ids, instance_ips, i, j + 1,
                IF ip1 = NoAddr \/ ip2 = NoAddr THEN tunnel_commands
                ELSE tunnel_commands \o pair_commands(instance_ids, instance_ips, i, j))

\* what running a tunnel command on a host can do
TunnelOutcomes == {"exit0", "exit_nonzero", "ssh_error"}

\* lines 294-313: what becomes of one tunnel command: not run without a public
\* address; an error of the connection is logged; the exit status is read and
\* not looked at
execute_command(entry, outcome) ==
    IF entry.public_ip = NoAddr THEN "skipped"
    ELSE IF outcome = "ssh_error" THEN "error_logged"
    ELSE IF outcome = "exit_nonzero" THEN "ran_failed"
    ELSE "ran_ok"

\* a failing variant: a single instance is handled like several
connect_no_shortcut(instance_ids, described, host_outcomes) ==
    LET instance_ips == mesh_instance_ips(instance_ids, described, 1, <<>>)
        built == tunnel_pairs_loop(instance_ids, instance_ips, 0, 1, <<>>)
        OutcomeOn(id) ==
            host_outcomes[CHOOSE i \in 1..Len(instance_ids) : instance_ids[i] = id]
    IN IF built.kind = "KeyError"
       THEN [ret |-> "False", queried |-> "True",
             tunnel_commands |-> built.tunnel_commands, executed |-> <<>>]
       ELSE [ret |-> "True", queried |-> "True",
             tunnel_commands |-> built.tunnel_commands,
             executed |-> [k \in 1..Len(built.tunnel_commands) |->
                              execute_command(built.tunnel_commands[k],
                                              OutcomeOn(built.tunnel_commands[k].on))]]

\* True or False as the mesh builder returns it, whether it called
\* describe_instances (line 247), the tunnel commands it built and what became
\* of each; host_outcomes[i] is what the host of instance_ids[i] does with a
\* command. With at most one instance id it returns True at once (243-245)
connect(instance_ids, described, host_outcomes) ==
    IF Len(instance_ids) <= 1
    THEN [ret |-> "True", queried |-> "False", tunnel_commands |-> <<>>, executed |-> <<>>]
    ELSE LET instance_ips == mesh_instance_ips(instance_ids, described, 1, <<>>)
             built == tunnel_pairs_loop(instance_ids, instance_ips, 0, 1, <<>>)
             OutcomeOn(id) ==
                 host_outcomes[CHOOSE i \in 1..Len(instance_ids) : instance_ids[i] = id]
         IN IF built.kind = "KeyError"
            THEN [ret |-> "False", queried |-> "True",
                  tunnel_commands |-> built.tunnel_commands, executed |-> <<>>]
            ELSE [ret |-> "True", queried |-> "True",
                  tunnel_commands |-> built.tunnel_commands,
                  executed |-> [k \in 1..Len(built.tunnel_commands) |->
                                   execute_command(built.tunnel_commands[k],
                                                   OutcomeOn(built.tunnel_commands[k].on))]]

MeshInputs ==
    UNION {[instance_ids : {[j \in 1..n |-> InstanceId(j)]},
            described : {d \in [1..n -> UNION {Described(j) : j \in 1..n}] :
                            \A j \in 1..n : d[j] \in Described(j)},
            host_outcomes : [1..n -> TunnelOutcomes]] : n \in 0..MaxMeshTargets}

NoMesh == [ret |-> "none", queried |-> "False", tunnel_commands |-> <<>>, executed |-> <<>>]

MeshInit ==
    /\ inp \in MeshInputs
    /\ out = NoMesh
    /\ OrchInit(Callers(MainNames, FALSE, FALSE, FALSE))

ApplyConnect ==
    /\ out = NoMesh
    /\ out' = connect(inp.instance_ids, inp.described, inp.host_outcomes)
    /\ out' # NoMesh
    /\ UNCHANGED <<inp, orchVars>>

SpecMesh == MeshInit /\ [][ApplyConnect]_vars

-----------------------------------------------------------------------------
(* Claims about the mesh builder (under SpecMesh)                           *)

Choose2(n) == (n * (n - 1)) \div 2

\* every instance is in the response with a public and a private address
AllAddressed ==
    \A j \in 1..Len(inp.instance_ids) :
        /\ inp.described[j].present = "True"
        /\ inp.described[j].public_ip # NoAddr
        /\ inp.described[j].private_ip # NoAddr

\* the couples of commands the mesh builder built, as the sets of the two
\* instances each couple is for
PairAt(k) == {out.tunnel_commands[2 * k - 1].on, out.tunnel_commands[2 * k].on}

\* C11: for n instances that all have addresses the mesh builder builds
\* C(n,2) couples of tunnel commands, one couple for every unordered pair of
\* distinct instances, the two commands of a couple being one for each of the
\* two instances with the other one's address as the remote end, and it runs
\* every command.
C11_MeshPairs ==
    (out # NoMesh /\ AllAddressed)
    => LET n == Len(inp.instance_ids)
           tc == out.tunnel_commands
       IN /\ Len(tc) = 2 * Choose2(n)
          /\ \A a \in 1..n, b \in 1..n :
               a < b => Cardinality({k \in 1..Choose2(n) :
                            PairAt(k) = {inp.instance_ids[a], inp.instance_ids[b]}}) = 1
          /\ \A k \in 1..Choose2(n) :
               /\ tc[2 * k - 1].on # tc[2 * k].on
               /\ tc[2 * k - 1].command.local = tc[2 * k].command.remote
               /\ tc[2 * k - 1].command.remote = tc[2 * k].command.local
               /\ \E j \in 1..n : /\ inp.instance_ids[j] = tc[2 * k - 1].on
                                  /\ tc[2 * k - 1].command.local = PrivateIp(j)
                                  /\ tc[2 * k - 1].public_ip = PublicIp(j)
               /\ \E j \in 1..n : /\ inp.instance_ids[j] = tc[2 * k].on
                                  /\ tc[2 * k].command.local = PrivateIp(j)
                                  /\ tc[2 * k].public_ip = PublicIp(j)
          /\ Len(out.executed) = Len(tc)
          /\ \A k \in 1..Len(tc) : out.executed[k] # "skipped"

\* three instances with addresses: three couples, six commands
C11_Witness ==
    /\ out # NoMesh /\ AllAddressed
    /\ Len(inp.instance_ids) = 3
    /\ Len(out.tunnel_commands) = 6
    /\ {PairAt(k) : k \in 1..3} =
          {{InstanceId(1), InstanceId(2)}, {InstanceId(1), InstanceId(3)},
           {InstanceId(2), InstanceId(3)}}

-----------------------------------------------------------------------------
(* NDTManager.find_suitable_ec2                                             *)

MaxKnownTargets == 2    \* instances the resource poll reports

NoTarget == [found |-> "False", instance_id |-> <<>>]

Target(instance_id) == [found |-> "True", instance_id |-> instance_id]

\* line 256-261, the test of one instance
suits(resource, requirements) ==
    /\ resource.available_cpu >= requirements.cpu_cores
    /\ resource.available_memory_gb >= requirements.memory_gb
    /\ resource.available_storage_gb >= requirements.storage_gb
    /\ resource.status = "running"

\* the test of one instance without the look at its state
suits_any_state(resource, requirements) ==
    /\ resource.available_cpu >= requirements.cpu_cores
    /\ resource.available_memory_gb >= requirements.memory_gb
    /\ resource.available_storage_gb >= requirements.storage_gb

\* the selector passing over the state of the instances
RECURSIVE find_suitable_ec2_any_state(_, _, _)
find_suitable_ec2_any_state(resources, requirements, i) ==
    IF i > Len(resources) THEN NoTarget
    ELSE IF suits_any_state(resources[i].v, requirements) THEN Target(resources[i].k)
    ELSE find_suitable_ec2_any_state(resources, requirements, i + 1)

\* lines 251-264: resources is the dict of the poll, in its order
RECURSIVE find_suitable_ec2(_, _, _)
find_suitable_ec2(resources, requirements, i) ==
    IF i > Len(resources) THEN NoTarget
    ELSE IF suits(resources[i].v, requirements) THEN Target(resources[i].k)
    ELSE find_suitable_ec2(resources, requirements, i + 1)

CpuValues == {2, 4, 6}
MemoryValues == {4, 8}
StorageValues == {20, 40}

ResourcesOf(j) ==
    [available_cpu : CpuValues, available_memory_gb : MemoryValues,
     available_storage_gb : StorageValues, status : {"running", "pending"}]

SelectorInputs ==
    UNION {[resources : {[j \in 1..n |-> [k |-> InstanceId(j), v |-> r[j]]] :
                            r \in [1..n -> ResourcesOf(1)]},
            requirements : [cpu_cores : CpuValues, memory_gb : MemoryValues,
                            storage_gb : StorageValues]] : n \in 0..MaxKnownTargets}

NotSelected == [found |-> "none", instance_id |-> <<>>]

SelectorInit ==
    /\ inp \in SelectorInputs
    /\ out = NotSelected
    /\ OrchInit(Callers(MainNames, FALSE, FALSE, FALSE))

ApplyFindSuitable ==
    /\ out = NotSelected
    /\ out' = find_suitable_ec2(inp.resources, inp.requirements, 1)
    /\ UNCHANGED <<inp, orchVars>>

SpecSelector == SelectorInit /\ [][ApplyFindSuitable]_vars

\* the positions of the known instances that are running and have at least
\* the required cpu, memory and storage available
Satisfying ==
    {i \in 1..Len(inp.resources) :
        /\ inp.resources[i].v.status = "running"
        /\ inp.resources[i].v.available_cpu >= inp.requirements.cpu_cores
        /\ inp.resources[i].v.available_memory_gb >= inp.requirements.memory_gb
        /\ inp.resources[i].v.available_storage_gb >= inp.requirements.storage_gb}

\* C12: the selector returns no target exactly when no known instance is
\* running with enough cpu, memory and storage available, and otherwise
\* returns the first known instance that is.
C12_SelectorPolicyA ==
    out # NotSelected
    => /\ out.found = "False" <=> Satisfying = {}
       /\ out.found = "True"
          => \E i \in Satisfying :
                /\ out.instance_id = inp.resources[i].k
                /\ \A h \in Satisfying : i <= h

\* a running instance with 4 cpu and 8 GB available is returned for a
\* requirement of 2 cpu and 4 GB
C12_Witness ==
    /\ Len(inp.resources) = 1
    /\ inp.resources[1].v.available_cpu = 4
    /\ inp.resources[1].v.available_memory_gb = 8
    /\ inp.resources[1].v.status = "running"
    /\ inp.requirements.cpu_cores = 2
    /\ inp.requirements.memory_gb = 4
    /\ out = Target(InstanceId(1))

-----------------------------------------------------------------------------
(* Requests on a name that has no record *)

\* the step accepts a request op on name: the call is either suspended at its
\* first await or has returned within the step
Started(op, name) ==
    /\ ncalls' = ncalls + 1
    /\ IF BagCardinality(calls') > BagCardinality(calls)
       THEN \E f \in BagToSet(calls') :
              /\ CopiesIn(f, calls') > CopiesIn(f, calls)
              /\ f.op = op
              /\ f.name = name
       ELSE last'.op = op /\ last'.name = name

NotFoundAnswer(op) == IF op = "destroy" THEN "False" ELSE "absent"

\* C13: a destroy or a status request on a name that has no record returns
\* "not found" (False for destroy, None for status) within the step: it does
\* not raise, makes no remote call, suspends nowhere and leaves the registry
\* and the records as they were.
C13_UnknownNameIsNotFound ==
    [][\A op \in {"destroy", "status"} : \A name \in Names :
         (Started(op, name) /\ active_deployments[name] = 0)
            => /\ calls' = calls
               /\ last'.kind = NotFoundAnswer(op)
               /\ last'.remote = <<>>
               /\ active_deployments' = active_deployments
               /\ heap' = heap]_vars

\* a destroy on an unknown name has returned False without a remote call,
\* after an earlier call of the run
C13_Witness ==
    /\ last.op = "destroy"
    /\ last.kind = "False"
    /\ last.remote = <<>>
    /\ active_deployments[last.name] = 0
    /\ ncalls > 1

-----------------------------------------------------------------------------
(* What a deploy returns *)

\* the number of dispatches that returned True
Succeeded(results) == Cardinality({i \in DOMAIN results : results[i] = "True"})

\* C14: a deploy of which at least one partition succeeded returns a record,
\* never None and never an exception, with the success count, the failure
\* count and the partition map, whether or not other partitions or the mesh
\* setup failed.
C14_RecordWhenSomeSucceeded ==
    (last.op = "deploy" /\ Succeeded(last.results) >= 1)
        => /\ last.kind = "record"
           /\ last.rec # NoRecord
           /\ last.rec.successful_deployments = Succeeded(last.results)
           /\ last.rec.successful_deployments >= 1
           /\ last.rec.failed_deployments = Len(last.results) - Succeeded(last.results)
           /\ last.rec.distribution # <<>>
           /\ Len(last.rec.distribution) = last.rec.total_instances

\* a deploy returned its record with one partition deployed, one failed and
\* the mesh setup failed
C14_Witness ==
    /\ last.op = "deploy"
    /\ last.kind = "record"
    /\ last.rec.successful_deployments = 1
    /\ last.rec.failed_deployments = 1
    /\ last.rec.connectivity_setup = "False"
    /\ Len(last.rec.distribution) = 2

-----------------------------------------------------------------------------
(* Links between partitions *)

\* the partitions (by position in the distribution) holding the node that the
\* endpoint names
PartitionsOf(ep, d) == {p \in 1..Len(d) : NamesNodeIn(ep, Range(d[p].v))}

\* the first two endpoints of the link name nodes of different partitions
Crosses(link, d) ==
    /\ Len(link.endpoints) >= 2
    /\ \E p \in PartitionsOf(link.endpoints[1], d) :
         \E q \in PartitionsOf(link.endpoints[2], d) : p # q

\* the tasks whose partial topology has the link
Holders(link, tasks) ==
    {t \in 1..Len(tasks) : link \in Range(tasks[t].topology_config.links)}

\* C15: when the partitions are pairwise disjoint, a link whose first two
\* endpoints lie in different partitions is in no partition's partial
\* topology, and every original link is in the partial topology of at most
\* one partition.
C15_CrossLinksDropped ==
    (out.kind = "tasks" /\ PairwiseDisjoint(out.dist)) =>
        \A l \in 1..Len(inp.topology.links) :
            LET link == inp.topology.links[l]
            IN /\ Cardinality(Holders(link, out.tasks)) <= 1
               /\ Crosses(link, out.dist) => Holders(link, out.tasks) = {}

\* two partitions got their tasks, a link inside one of them was kept by it
\* and a link across them was dropped
C15_Witness ==
    /\ out.kind = "tasks"
    /\ PairwiseDisjoint(out.dist)
    /\ Len(out.dist) >= 2
    /\ Len(out.tasks) = Len(out.dist)
    /\ \E l \in 1..Len(inp.topology.links) :
          /\ Crosses(inp.topology.links[l], out.dist)
          /\ Holders(inp.topology.links[l], out.tasks) = {}
    /\ \E l \in 1..Len(inp.topology.links) :
          Cardinality(Holders(inp.topology.links[l], out.tasks)) = 1

-----------------------------------------------------------------------------
(* Partitions whose instance has no entry in instance_ips *)

DeployReturnedRecord == last.op = "deploy" /\ last.kind = "record"

\* the partitions of the record for which no task was created
Unresolved(rec) ==
    {p \in 1..Len(rec.distribution) :
        \A t \in 1..Len(rec.tasks) : rec.tasks[t].instance_id # rec.distribution[p].k}

\* the dispatches that did not return True
FailedDispatches(results) == {i \in DOMAIN results : results[i] # "True"}

\* C16: with u unresolved partitions and f dispatched partitions that failed,
\* the record a deploy returns has failed_deployments = u + f, and its status
\* is not "success" when u > 0.
C16_UnresolvedCountsAsFailed ==
    DeployReturnedRecord =>
        LET u == Cardinality(Unresolved(last.rec))
            f == Cardinality(FailedDispatches(last.results))
        IN /\ last.rec.failed_deployments = u + f
           /\ u > 0 => last.rec.status # "success"

\* the keys of the distribution that are among the resolved ids, in order
RECURSIVE ResolvedPartitions(_, _)
ResolvedPartitions(distribution, resolved) ==
    IF Len(distribution) = 0 THEN <<>>
    ELSE (IF distribution[1].k \in Range(resolved) THEN <<distribution[1].k>> ELSE <<>>)
         \o ResolvedPartitions(Tail(distribution), resolved)

TaskInstances(tasks) == [t \in 1..Len(tasks) |-> tasks[t].instance_id]

DeployDispatches(remote) == {i \in 1..Len(remote) : remote[i] = "deploy_topology"}

TasksWithStatus(tasks, status) == {t \in 1..Len(tasks) : tasks[t].status = status}

\* C18: in the record a deploy returns, successful_deployments is the number
\* of tasks with status completed, failed_deployments the number of tasks with
\* status failed, and the two add up to the number of tasks of the record.
C18_CountsMatchTasks ==
    DeployReturnedRecord =>
        /\ last.rec.successful_deployments
              = Cardinality(TasksWithStatus(last.rec.tasks, "completed"))
        /\ last.rec.failed_deployments
              = Cardinality(TasksWithStatus(last.rec.tasks, "failed"))
        /\ last.rec.successful_deployments + last.rec.failed_deployments
              = Len(last.rec.tasks)

\* a deploy returned a record with a completed and a failed task
C18_Witness ==
    /\ DeployReturnedRecord
    /\ TasksWithStatus(last.rec.tasks, "completed") # {}
    /\ TasksWithStatus(last.rec.tasks, "failed") # {}
    /\ last.rec.successful_deployments + last.rec.failed_deployments = 2

MeshInvoked(remote) == "setup_inter_instance_connectivity" \in Range(remote)

\* C19: within a deploy call the mesh builder is invoked if and only if the
\* distribution has more than one target and at least two partitions were
\* deployed successfully.
C19_MeshIffTwoSucceeded ==
    DeployReturnedRecord =>
        (MeshInvoked(last.remote)
            <=> (Len(last.rec.distribution) > 1 /\ last.rec.successful_deployments >= 2))

\* every pair of instances got its couple of commands, and every command ran
\* and exited with status 0
EveryPairSetUp ==
    /\ Len(out.tunnel_commands) = 2 * Choose2(Len(inp.instance_ids))
    /\ \A k \in 1..Len(out.executed) : out.executed[k] = "ran_ok"
    /\ Len(out.executed) = Len(out.tunnel_commands)

\* C20: the mesh builder returns True only if every pair of the mesh was set
\* up on both sides, and False if a pair was skipped for a missing address, a
\* host was unreachable or a remote command failed.
C20_TrueOnlyIfEveryPairSetUp ==
    out # NoMesh => (out.ret = "True" <=> EveryPairSetUp)

\* the subnet of a tunnel address: its first three numbers
Subnet(addr) == SubSeq(addr, 1, 3)

\* the subnet of the k-th couple of commands
SubnetOfPair(k) == Subnet(out.tunnel_commands[2 * k - 1].command.addr)

\* C21: two distinct pairs of instances of one mesh get different subnets, so
\* no instance is given the same address on two tunnel interfaces.
C21_OneSubnetPerPair ==
    out # NoMesh =>
        LET tc == out.tunnel_commands
        IN /\ \A k, l \in 1..(Len(tc) \div 2) : k # l => SubnetOfPair(k) # SubnetOfPair(l)
           /\ \A a, b \in 1..Len(tc) :
                 (a # b /\ tc[a].on = tc[b].on) => tc[a].command.addr # tc[b].command.addr

-----------------------------------------------------------------------------
(* The barrier of a deploy call *)

\* the records the registry holds and the record a deploy has just returned
StoredOrReturned == RegistryRecords \cup (IF DeployReturnedRecord THEN {last.rec} ELSE {})

\* C22: the record of a deploy call is produced and stored only when every
\* dispatched task has delivered its result: no task of a stored or returned
\* record is pending or running, every one has a completion timestamp, and a
\* returned record has a result for each of its tasks.
C22_RecordAfterBarrier ==
    /\ \A rec \in StoredOrReturned :
          \A t \in 1..Len(rec.tasks) :
             /\ rec.tasks[t].status \notin {"pending", "running"}
             /\ rec.tasks[t].completed_at # None
    /\ DeployReturnedRecord => Len(last.results) = Len(last.rec.tasks)

\* a record of two tasks is stored while another deploy call awaits its
\* dispatches
C22_Witness ==
    /\ \E rec \in RegistryRecords :
          /\ Len(rec.tasks) = 2
          /\ \A t \in 1..2 : rec.tasks[t].completed_at = Now
    /\ \E f \in BagToSet(calls) :
          /\ f.op = "deploy"
          /\ \E t \in 1..Len(f.tasks) : f.tasks[t].status = "pending"

\* C23: in the remote calls of one deploy call the mesh builder comes after
\* every dispatch of the call: all the call's tasks have been dispatched and
\* have delivered their results before it.
C23_MeshAfterDispatches ==
    (last.op = "deploy" /\ MeshInvoked(last.remote)) =>
        \A m \in 1..Len(last.remote) :
            last.remote[m] = "setup_inter_instance_connectivity" =>
                /\ DeployDispatches(last.remote) \subseteq 1..(m - 1)
                /\ Cardinality(DeployDispatches(last.remote)) = Len(last.rec.tasks)
                /\ Len(last.results) = Len(last.rec.tasks)

\* a deploy dispatched two tasks and then called the mesh builder
C23_Witness ==
    /\ DeployReturnedRecord
    /\ last.remote = <<"describe_instances", "deploy_topology", "deploy_topology",
                       "setup_inter_instance_connectivity">>
    /\ Len(last.results) = 2

-----------------------------------------------------------------------------
(* ndt_manager.py: the DELETE /topology/{topology_name} endpoint *)

MaxEndpointTargets == 2     \* instances of the deployment given to the endpoint

\* what describe_instances answers for one instance: no reservation (the
\* subscript [0] raises IndexError), an instance without public address, one
\* with a public address
EndpointDescribed == {"IndexError", "no_public_ip", "public_ip"}

\* what the SSH session to one instance does
EndpointSsh == {"exit0", "exit_nonzero", "ssh_error"}

\* lines 775-792: for every instance of the distribution, describe it and, if
\* it has a public address, run containerlab destroy on it; the exit status
\* is read and dropped; any exception leaves the loop
RECURSIVE endpoint_destroy_loop(_, _, _, _, _)
endpoint_destroy_loop(instance_ids, described, ssh, i, commands) ==
    IF i > Len(instance_ids) THEN [kind |-> "done", commands |-> commands]
    ELSE IF described[i] = "IndexError" THEN [kind |-> "raised", commands |-> commands]
    ELSE IF described[i] = "no_public_ip"
    THEN endpoint_destroy_loop(instance_ids, described, ssh, i + 1, commands)
    ELSE IF ssh[i] = "ssh_error" THEN [kind |-> "raised", commands |-> commands]
    ELSE endpoint_destroy_loop(instance_ids, described, ssh, i + 1,
                               Append(commands, instance_ids[i]))

\* lines 767-802: the HTTP status of the answer, whether the name is in
\* topology_deployments afterwards, and the instances the destroy command ran on
endpoint_destroy_topology(registered, instance_ids, described, ssh) ==
    IF registered = "False"
    THEN [status |-> 404, registered |-> "False", commands |-> <<>>]
    ELSE LET loop == endpoint_destroy_loop(instance_ids, described, ssh, 1, <<>>)
         IN IF loop.kind = "raised"
            THEN [status |-> 500, registered |-> "True", commands |-> loop.commands]
            ELSE [status |-> 200, registered |-> "False", commands |-> loop.commands]

EndpointDestroyInputs ==
    UNION {[registered : {"True", "False"},
            instance_ids : {[j \in 1..n |-> InstanceId(j)]},
            described : [1..n -> EndpointDescribed],
            ssh : [1..n -> EndpointSsh]] : n \in 0..MaxEndpointTargets}

NoAnswer == [status |-> 0, registered |-> "None", commands |-> <<>>]

EndpointDestroyInit ==
    /\ inp \in EndpointDestroyInputs
    /\ out = NoAnswer
    /\ OrchInit(Callers(MainNames, FALSE, FALSE, FALSE))

ApplyEndpointDestroy ==
    /\ out = NoAnswer
    /\ out' = endpoint_destroy_topology(inp.registered, inp.instance_ids, inp.described,
                                        inp.ssh)
    /\ UNCHANGED <<inp, orchVars>>

SpecEndpointDestroy == EndpointDestroyInit /\ [][ApplyEndpointDestroy]_vars

-----------------------------------------------------------------------------
(* Destroy of a name that has a record *)

\* the orchestrator's destroy_deployment, callers taking turns: a destroy of a
\* name that has a record returns True and leaves the name without record
OrchestratorDestroyRemoves ==
    [][\A name \in Names :
         (last' # last /\ last'.op = "destroy" /\ last'.name = name
            /\ active_deployments[name] # 0)
         => (last'.kind = "True" /\ active_deployments'[name] = 0)]_vars

\* C24: a destroy of a name that has a record removes the record and reports
\* success whatever the destroys on the instances do: fail, raise, or be
\* skipped for an instance without address.
C24_DestroyRemovesRegardless ==
    (out # NoAnswer /\ inp.registered = "True")
        => (out.status = 200 /\ out.registered = "False")

-----------------------------------------------------------------------------
(* What a status query stores and returns *)

\* C25: when a status query of a registered name returns, every task of the
\* record was polled, the stored status of each task is the one just polled
\* for that task, and the record returned is the stored one.
C25_StoredStatusIsPolled ==
    [][\A f \in BagToSet(calls) :
         (f.op = "status" /\ ReturnOf(f))
         => /\ Len(f.awaited) = Len(heap[f.info].tasks)
            /\ \A i \in 1..Len(f.awaited) :
                  heap'[f.info].tasks[f.awaited[i].task].status = last'.results[i]
            /\ last'.rec = heap'[f.info]]_vars

-----------------------------------------------------------------------------
(* The registry at the return of a deploy *)

\* the step is the return of a record by a deploy call, one that was
\* suspended at its gather or one that had nothing to dispatch
DeployReturnsRecord ==
    /\ last'.op = "deploy" /\ last'.kind = "record"
    /\ \/ ncalls' = ncalls + 1 /\ calls' = calls
       \/ \E f \in BagToSet(calls) : f.op = "deploy" /\ ReturnOf(f)

\* C26: when a deploy returns a record, the registry entry of its topology
\* name is that record, and the entry of every other name is the one it was,
\* with the record it had.
C26_RegistryHoldsReturnedRecord ==
    [][DeployReturnsRecord
       => /\ active_deployments'[last'.name] # 0
          /\ heap'[active_deployments'[last'.name]] = last'.rec
          /\ \A n \in Names \ {last'.name} :
                /\ active_deployments'[n] = active_deployments[n]
                /\ active_deployments[n] # 0
                   => heap'[active_deployments[n]] = heap[active_deployments[n]]]_vars

\* a deploy has returned its record, which the registry holds under its name
\* next to the record of the other name
C26_Witness ==
    /\ DeployReturnedRecord
    /\ active_deployments[last.name] # 0
    /\ heap[active_deployments[last.name]] = last.rec
    /\ \E n \in Names \ {last.name} :
          /\ active_deployments[n] # 0
          /\ heap[active_deployments[n]].topology_name = n

-----------------------------------------------------------------------------
(* How long a stored task stays *)

\* the step is the return of a destroy of the name
DestroyReturns(name) ==
    \/ Started("destroy", name) /\ calls' = calls
    \/ \E f \in BagToSet(calls) : f.op = "destroy" /\ f.name = name /\ ReturnOf(f)

\* C27: the tasks of a record in the registry stay there until a destroy of
\* the record's name: a step that is not the return of such a destroy leaves
\* the name's entry the same object with the same tasks, whether the step
\* belongs to a status call or to a deploy call, of that name or of another.
C27_TasksStayUntilDestroy ==
    [][\A name \in Names :
         (active_deployments[name] # 0 /\ ~DestroyReturns(name))
         => /\ active_deployments'[name] = active_deployments[name]
            /\ TaskInstances(heap'[active_deployments[name]].tasks)
                  = TaskInstances(heap[active_deployments[name]].tasks)]_vars

\* C28: every task with status failed, in a record of the registry or in one
\* just returned by a deploy, has a completion timestamp and an error message.
C28_FailedTaskHasErrorMessage ==
    \A rec \in StoredOrReturned :
        \A t \in 1..Len(rec.tasks) :
            rec.tasks[t].status = "failed"
            => /\ rec.tasks[t].completed_at # None
               /\ rec.tasks[t].error_message # None

-----------------------------------------------------------------------------
(* Deploy of a topology without nodes *)

\* C29: a deploy of a topology that has no nodes raises the "no nodes to
\* distribute" error in the step that accepts it: it is never suspended at a
\* dispatch, makes no remote call, the mesh builder included, and leaves the
\* registry and its records as they were.
C29_NoNodesFails ==
    [][ /\ \A f \in BagToSet(calls') : f.op = "deploy" => f.given.nodes > 0
        /\ (ncalls' = ncalls + 1 /\ calls' = calls
              /\ last'.op = "deploy" /\ last'.given.nodes = 0)
           => /\ last'.kind = "raised"
              /\ last'.error = NoNodesError
              /\ last'.results = <<>>
              /\ last'.remote = <<>>
              /\ active_deployments' = active_deployments
              /\ heap' = heap ]_vars

\* a deploy of a topology without nodes has raised while the name has a record
C29_Witness ==
    /\ last.op = "deploy"
    /\ last.given.nodes = 0
    /\ last.kind = "raised"
    /\ last.error = NoNodesError
    /\ active_deployments[last.name] # 0

-----------------------------------------------------------------------------
(* Chunk sizes *)

\* the chunk size of the partitioner that was applied
ChunkSize == IF inp.fn = "distribute_nodes" THEN inp.max_nodes ELSE nodes_per_instance

\* part is a run of consecutive elements of whole, in order
Contiguous(part, whole) ==
    \E start \in 1..(Len(whole) + 1) :
        /\ start + Len(part) - 1 <= Len(whole)
        /\ part = SubSeq(whole, start, start + Len(part) - 1)

\* C30: every partition the partitioning returns is a run of at most
\* chunk_size consecutive node names in their original order, also when fewer
\* instances are available than chunks are needed.
C30_ChunksAtMostChunkSize ==
    (out.kind = "dist" /\ inp.fn \in {"distribute_nodes", "distribute_topology"}) =>
        \A p \in 1..Len(out.dist) :
            /\ Len(out.dist[p].v) <= ChunkSize
            /\ Contiguous(out.dist[p].v, NodeNames(inp.topology))

\* the same for NDTManager.distribute_topology alone
ChunksOfDistributeTopology ==
    (out.kind = "dist" /\ inp.fn = "distribute_topology") =>
        \A p \in 1..Len(out.dist) :
            /\ Len(out.dist[p].v) <= nodes_per_instance
            /\ Contiguous(out.dist[p].v, NodeNames(inp.topology))

-----------------------------------------------------------------------------
(* The mesh builder with at most one instance *)

\* C31: the mesh builder given at most one instance id is a no-op that reports
\* success: it does not call describe_instances, builds and runs no tunnel
\* command, and returns True.
C31_SingleTargetIsNoOp ==
    (out # NoMesh /\ Len(inp.instance_ids) <= 1) =>
        /\ out.ret = "True"
        /\ out.queried = "False"
        /\ out.tunnel_commands = <<>>
        /\ out.executed = <<>>

\* the mesh builder has returned for a single instance that describe_instances
\* would name with both addresses
C31_Witness ==
    /\ out # NoMesh
    /\ Len(inp.instance_ids) = 1
    /\ inp.described[1].present = "True"
    /\ inp.described[1].public_ip # NoAddr
    /\ out.ret = "True"

\* a deploy whose distribution has a single instance does not call the mesh
\* builder and records connectivity_setup True (under Spec)
SingleTargetDeployRecordsSuccess ==
    (DeployReturnedRecord /\ Len(last.rec.distribution) <= 1) =>
        /\ last.rec.connectivity_setup = "True"
        /\ ~MeshInvoked(last.remote)

-----------------------------------------------------------------------------
(* Sizing a new instance: NDTManager.determine_instance_size and            *)
(* EC2InstanceProvisioner.select_instance_type                              *)

MaxCpuCores == 9        \* largest cpu_cores of a requirement
MaxMemoryGb == 33       \* largest memory_gb of a requirement
MaxContainers == 26     \* largest estimated_containers of a request

\* the storage_gb values of a requirement: around every storage of the table
StorageRequests == {10, 20, 21, 50, 100, 101, 200, 201}

\* self.instance_specs, in the order the dict is written
instance_specs ==
    << [size |-> "small", instance_type |-> "t3.medium", cpu |-> 2, memory |-> 4, storage |-> 20],
       [size |-> "medium", instance_type |-> "t3.large", cpu |-> 2, memory |-> 8, storage |-> 50],
       [size |-> "large", instance_type |-> "t3.xlarge", cpu |-> 4, memory |-> 16, storage |-> 100],
       [size |-> "xlarge", instance_type |-> "t3.2xlarge", cpu |-> 8, memory |-> 32,
        storage |-> 200] >>

\* one entry of self.instance_type_map; cost_per_hour in 1/10000 dollar
TypeEntry(size_name, type, cpu, memory, max_containers, cost_per_hour) ==
    [size_name |-> size_name, type |-> type, cpu |-> cpu, memory |-> memory,
     max_containers |-> max_containers, cost_per_hour |-> cost_per_hour]

\* self.instance_type_map, in the order the dict is written
instance_type_map ==
    << TypeEntry("micro", "t3.micro", 2, 1, 2, 104),
       TypeEntry("small", "t3.small", 2, 2, 3, 208),
       TypeEntry("medium", "t3.medium", 2, 4, 5, 416),
       TypeEntry("large", "t3.large", 2, 8, 8, 832),
       TypeEntry("xlarge", "t3.xlarge", 4, 16, 15, 1664),
       TypeEntry("2xlarge", "t3.2xlarge", 8, 32, 25, 3328),
       TypeEntry("c5_large", "c5.large", 2, 4, 6, 850),
       TypeEntry("c5_xlarge", "c5.xlarge", 4, 8, 12, 1700),
       TypeEntry("r5_large", "r5.large", 2, 16, 10, 1260),
       TypeEntry("r5_xlarge", "r5.xlarge", 4, 32, 20, 2520) >>

\* the condition with the storage comparison left out
size_fits_cpu_memory(specs, requirements) ==
    /\ specs.cpu >= requirements.cpu_cores
    /\ specs.memory >= requirements.memory_gb

\* ndt_manager.py 269-273: the condition of determine_instance_size
size_fits(specs, requirements) ==
    /\ specs.cpu >= requirements.cpu_cores
    /\ specs.memory >= requirements.memory_gb
    /\ specs.storage >= requirements.storage_gb

\* ndt_manager.py 266-276: the first size of the table that fits, or "xlarge"
RECURSIVE determine_instance_size(_, _)
determine_instance_size(requirements, i) ==
    IF i > Len(instance_specs) THEN "xlarge"
    ELSE IF size_fits(instance_specs[i], requirements) THEN instance_specs[i].size
    ELSE determine_instance_size(requirements, i + 1)

\* instance_provisioner.py 124-126
type_fits(specs, request) ==
    /\ specs.cpu >= request.cpu_cores
    /\ specs.memory >= request.memory_gb
    /\ specs.max_containers >= request.estimated_containers

\* instance_provisioner.py 129-138, times 10000:
\* cpu_overhead * 0.4 + memory_overhead * 0.4 + container_overhead * 0.2
\*   + cost_per_hour * 10
efficiency_score(specs, request) ==
    4000 * (specs.cpu - request.cpu_cores)
    + 4000 * (specs.memory - request.memory_gb)
    + 2000 * (specs.max_containers - request.estimated_containers)
    + 10 * specs.cost_per_hour

\* instance_provisioner.py 123-140: suitable_types, as indices of the table
RECURSIVE suitable_types(_, _, _)
suitable_types(request, i, acc) ==
    IF i > Len(instance_type_map) THEN acc
    ELSE suitable_types(request, i + 1,
             IF type_fits(instance_type_map[i], request) THEN Append(acc, i) ELSE acc)

\* instance_provisioner.py 148-149: the first element after the stable sort by
\* score, which is the first of the list with the lowest score
RECURSIVE first_lowest(_, _, _, _)
first_lowest(suitable, request, i, best) ==
    IF i > Len(suitable) THEN best
    ELSE first_lowest(suitable, request, i + 1,
             IF efficiency_score(instance_type_map[suitable[i]], request)
                  < efficiency_score(instance_type_map[best], request)
             THEN suitable[i] ELSE best)

\* instance_provisioner.py 117-155
select_instance_type(request) ==
    LET suitable == suitable_types(request, 1, <<>>)
    IN IF Len(suitable) = 0
       THEN (CHOOSE e \in Range(instance_type_map) : e.size_name = "2xlarge").type
       ELSE instance_type_map[first_lowest(suitable, request, 2, suitable[1])].type

MaxEstimateNodes == 3   \* node count of the topologies given to the estimate

\* cpu, memory and storage of one node, in tenths
Profile(cpu, memory, storage) == [cpu |-> cpu, memory |-> memory, storage |-> storage]

\* ndt_manager.py 215-217: cpu_per_node, memory_per_node, storage_per_node = 0.5, 0.5, 2.0
InitialProfile == Profile(5, 5, 20)

\* an unmatched kind charged the initial values instead of the current ones
node_profile_neutral(node_kind, current) ==
    IF node_kind \in {"srl", "srlinux"} THEN Profile(10, 20, 50)
    ELSE IF node_kind \in {"ceos", "arista_ceos"} THEN Profile(5, 10, 30)
    ELSE IF node_kind = "linux" THEN Profile(2, 5, 10)
    ELSE InitialProfile

\* ndt_manager.py 226-231: the if/elif chain assigns the three per-node
\* variables for a kind it names and leaves them as they are otherwise
node_profile(node_kind, current) ==
    IF node_kind \in {"srl", "srlinux"} THEN Profile(10, 20, 50)
    ELSE IF node_kind \in {"ceos", "arista_ceos"} THEN Profile(5, 10, 30)
    ELSE IF node_kind = "linux" THEN Profile(2, 5, 10)
    ELSE current

\* ndt_manager.py 224: node_config.get("kind", "linux")
kind_of(node_config) == IF node_config.kind = "absent" THEN "linux" ELSE node_config.kind

\* ndt_manager.py 223-235: the loop over nodes.items(); totals in tenths
RECURSIVE estimate_loop(_, _, _, _)
estimate_loop(nodes, i, current, total) ==
    IF i > Len(nodes) THEN total
    ELSE LET applied == node_profile(kind_of(nodes[i]), current)
         IN estimate_loop(nodes, i + 1, applied,
                Profile(total.cpu + applied.cpu, total.memory + applied.memory,
                        total.storage + applied.storage))

\* ndt_manager.py 209-249: totals start at 0.0, 0.0, 10.0 and the overhead
\* 1.0, 1.0, 5.0 is added after the loop. total_cpu is the sum before
\* cpu_cores = int(total_cpu) + 1 is taken of its binary value
analyze_containerlab_requirements(topology) ==
    LET total == estimate_loop(topology.nodes, 1, InitialProfile, Profile(0, 0, 100))
    IN [kind |-> "requirements",
        total_cpu |-> total.cpu + 10,
        memory_gb |-> total.memory + 10,
        storage_gb |-> total.storage + 50,
        estimated_processes |-> Len(topology.nodes) * 5 + 10]

\* the kinds of the nodes given to the estimate: the ones the code names, a
\* node without a kind, and a kind the code does not name
EstimateKinds == {"srl", "srlinux", "ceos", "arista_ceos", "linux", "absent", "vyos"}

EstimateTopologies ==
    UNION {{[name |-> <<"t">>,
             nodes |-> [i \in 1..n |-> [name |-> NodeName(i - 1), kind |-> k[i]]],
             links |-> <<>>] : k \in [1..n -> EstimateKinds]} : n \in 0..MaxEstimateNodes}

EstimateInputs == [fn : {"analyze_containerlab_requirements"}, topology : EstimateTopologies]

DetermineSizeInputs ==
    [fn : {"determine_instance_size"},
     requirements : [cpu_cores : 1..MaxCpuCores, memory_gb : 1..MaxMemoryGb,
                     storage_gb : StorageRequests]]

SelectTypeInputs ==
    [fn : {"select_instance_type"},
     requirements : [cpu_cores : 1..MaxCpuCores, memory_gb : 1..MaxMemoryGb,
                     estimated_containers : 1..MaxContainers]]

NotSized == [kind |-> "none", value |-> ""]

SizerInit ==
    /\ \/ inp \in DetermineSizeInputs
       \/ inp \in SelectTypeInputs
       \/ inp \in EstimateInputs
    /\ out = NotSized
    /\ OrchInit(Callers(MainNames, FALSE, FALSE, FALSE))

ApplyDetermineInstanceSize ==
    /\ out = NotSized
    /\ inp.fn = "determine_instance_size"
    /\ out' = [kind |-> "size", value |-> determine_instance_size(inp.requirements, 1)]
    /\ UNCHANGED <<inp, orchVars>>

ApplySelectInstanceType ==
    /\ out = NotSized
    /\ inp.fn = "select_instance_type"
    /\ out' = [kind |-> "type", value |-> select_instance_type(inp.requirements)]
    /\ UNCHANGED <<inp, orchVars>>

ApplyAnalyzeRequirements ==
    /\ out = NotSized
    /\ inp.fn = "analyze_containerlab_requirements"
    /\ out' = analyze_containerlab_requirements(inp.topology)
    /\ UNCHANGED <<inp, orchVars>>

SizerNext ==
    \/ ApplyAnalyzeRequirements
    \/ ApplyDetermineInstanceSize
    \/ ApplySelectInstanceType

SpecSizer == SizerInit /\ [][SizerNext]_vars

-----------------------------------------------------------------------------
(* Claims about the sizing (under SpecSizer)                                *)

\* the entry of a table has the cpu and the memory asked for
HasCpuAndMemory(entry) ==
    /\ entry.cpu >= inp.requirements.cpu_cores
    /\ entry.memory >= inp.requirements.memory_gb

\* the sizes of instance_specs that have the cpu, the memory and the storage
FittingSizes ==
    {i \in 1..Len(instance_specs) :
        /\ HasCpuAndMemory(instance_specs[i])
        /\ instance_specs[i].storage >= inp.requirements.storage_gb}

\* the entries of instance_type_map that have the cpu, the memory and the
\* max_containers
FittingTypes ==
    {i \in 1..Len(instance_type_map) :
        /\ HasCpuAndMemory(instance_type_map[i])
        /\ instance_type_map[i].max_containers >= inp.requirements.estimated_containers}

\* entry a of a table is at most entry b in cpu and memory
AtMost(a, b) == a.cpu <= b.cpu /\ a.memory <= b.memory

\* C32, as the code has it: determine_instance_size returns the smallest size of
\* its table whose cpu, memory and storage all meet the requirement, and
\* "xlarge", the largest size, when none does; select_instance_type returns,
\* of the entries whose cpu, memory and max_containers all meet the request,
\* the one with the lowest efficiency score, and the type of "2xlarge", the
\* largest entry, when none does.
C32_SizeByStorageTypeByScore ==
    /\ out.kind = "size" =>
          IF FittingSizes = {}
          THEN /\ out.value = "xlarge"
               /\ \E i \in 1..Len(instance_specs) :
                      /\ instance_specs[i].size = "xlarge"
                      /\ \A j \in 1..Len(instance_specs) :
                             /\ AtMost(instance_specs[j], instance_specs[i])
                             /\ instance_specs[j].storage <= instance_specs[i].storage
          ELSE \E i \in FittingSizes :
                   /\ out.value = instance_specs[i].size
                   /\ \A j \in FittingSizes :
                          /\ i <= j
                          /\ AtMost(instance_specs[i], instance_specs[j])
                          /\ instance_specs[i].storage <= instance_specs[j].storage
    /\ out.kind = "type" =>
          IF FittingTypes = {}
          THEN \E i \in 1..Len(instance_type_map) :
                   /\ instance_type_map[i].size_name = "2xlarge"
                   /\ out.value = instance_type_map[i].type
                   /\ \A j \in 1..Len(instance_type_map) :
                          /\ AtMost(instance_type_map[j], instance_type_map[i])
                          /\ instance_type_map[j].max_containers
                               <= instance_type_map[i].max_containers
          ELSE \E i \in FittingTypes :
                   /\ out.value = instance_type_map[i].type
                   /\ \A j \in FittingTypes :
                          efficiency_score(instance_type_map[i], inp.requirements)
                            <= efficiency_score(instance_type_map[j], inp.requirements)

\* a larger size was chosen for its storage although the smallest one has the
\* cpu and the memory
C32_Witness ==
    /\ out.kind = "size"
    /\ out.value = "medium"
    /\ HasCpuAndMemory(instance_specs[1])

\* a type was chosen by its score that is not the first fitting entry
TypeChosenByScore ==
    /\ out.kind = "type"
    /\ out.value = "c5.xlarge"
    /\ \E i \in FittingTypes : instance_type_map[i].type = "t3.xlarge"

\* the entries of a table that have the cpu and the memory, and the workload
\* count where the table has one
Qualifying(table) ==
    {i \in 1..Len(table) :
        /\ HasCpuAndMemory(table[i])
        /\ "max_containers" \in DOMAIN table[i]
              => table[i].max_containers >= inp.requirements.estimated_containers}

\* the first entry of the table that qualifies
FirstQualifying(table) == CHOOSE i \in Qualifying(table) : \A j \in Qualifying(table) : i <= j

\* C32: Policy B selects the smallest size tier, the first of the ordered
\* table, whose cpu, memory and max_workload_count all meet the requirement,
\* and falls back to the largest tier of the table when no tier qualifies.
C32_SmallestQualifyingTier ==
    /\ out.kind = "size" =>
          out.value = IF Qualifying(instance_specs) = {} THEN "xlarge"
                      ELSE instance_specs[FirstQualifying(instance_specs)].size
    /\ out.kind = "type" =>
          out.value = IF Qualifying(instance_type_map) = {} THEN "t3.2xlarge"
                      ELSE instance_type_map[FirstQualifying(instance_type_map)].type

-----------------------------------------------------------------------------
(* Claims about the resource estimate (under SpecSizer)                     *)

Estimated == out.kind = "requirements"

\* the kinds the profile table names; a node without a kind counts as linux
KnownKinds == {"srl", "srlinux", "ceos", "arista_ceos", "linux", "absent"}

\* the table profile of a known kind, in tenths
TableProfile(kind) ==
    CASE kind \in {"srl", "srlinux"} -> Profile(10, 20, 50)
      [] kind \in {"ceos", "arista_ceos"} -> Profile(5, 10, 30)
      [] kind \in {"linux", "absent"} -> Profile(2, 5, 10)

\* the nodes of known kind at or before node i
KnownUpTo(nodes, i) == {j \in 1..i : nodes[j].kind \in KnownKinds}

\* what node i is charged: its own table profile if its kind is known,
\* otherwise the profile of the nearest earlier node of known kind, and the
\* initial profile if there is none
Charged(nodes, i) ==
    IF KnownUpTo(nodes, i) = {} THEN InitialProfile
    ELSE TableProfile(nodes[CHOOSE j \in KnownUpTo(nodes, i) :
                                \A l \in KnownUpTo(nodes, i) : l <= j].kind)

RECURSIVE SumCharged(_, _)
SumCharged(nodes, i) ==
    IF i = 0 THEN Profile(0, 0, 0)
    ELSE LET rest == SumCharged(nodes, i - 1)
             c == Charged(nodes, i)
         IN Profile(rest.cpu + c.cpu, rest.memory + c.memory, rest.storage + c.storage)

Reverse(s) == [i \in 1..Len(s) |-> s[Len(s) + 1 - i]]

\* C33: the estimate charges a node of a kind the profile table does not name
\* the profile most recently applied to an earlier node of the topology, the
\* initial profile if no earlier node matched, and a node of a known kind its
\* own table profile; the totals are the base, the overhead and these charges.
C33_UnknownKindReusesLastProfile ==
    Estimated =>
        LET nodes == inp.topology.nodes
            sum == SumCharged(nodes, Len(nodes))
        IN /\ out.total_cpu = sum.cpu + 10
           /\ out.memory_gb = sum.memory + 10
           /\ out.storage_gb = sum.storage + 100 + 50

\* a node of unknown kind follows a node of kind srl, and the estimate of the
\* same nodes in the opposite order is a different one
C33_Witness ==
    /\ Estimated
    /\ Len(inp.topology.nodes) = 2
    /\ inp.topology.nodes[1].kind = "srl"
    /\ inp.topology.nodes[2].kind = "vyos"
    /\ out.memory_gb = 20 + 20 + 10
    /\ analyze_containerlab_requirements(
           [inp.topology EXCEPT !.nodes = Reverse(inp.topology.nodes)]).memory_gb
         # out.memory_gb

-----------------------------------------------------------------------------
(* Overall status of a deploy record (under Spec)                           *)

\* C34: a record a deploy returns with status "success" holds, for every
\* instance of its distribution, a task for that instance with status
\* completed, and successful_deployments equals total_instances.
C34_SuccessMeansAllDeployed ==
    (DeployReturnedRecord /\ last.rec.status = "success") =>
        /\ \A p \in 1..Len(last.rec.distribution) :
               \E t \in 1..Len(last.rec.tasks) :
                   /\ last.rec.tasks[t].instance_id = last.rec.distribution[p].k
                   /\ last.rec.tasks[t].status = "completed"
        /\ last.rec.successful_deployments = last.rec.total_instances

-----------------------------------------------------------------------------
(* Which poll a task's status comes from (under Spec)                       *)

\* the positions in the list of polls of a status call at which task t is polled
PollsOf(f, t) == {i \in 1..Len(f.awaited) : f.awaited[i].task = t}

\* C35: when a status call returns, a task whose stored status has changed was
\* polled by this call and its new status is the result of its own poll, also
\* when some instances of the record had no address and were not polled.
C35_StatusFromOwnPoll ==
    [][\A f \in BagToSet(calls) :
         (f.op = "status" /\ ReturnOf(f))
         => \A t \in 1..Len(heap[f.info].tasks) :
                last'.rec.tasks[t].status # heap[f.info].tasks[t].status
                => \E i \in PollsOf(f, t) : last'.rec.tasks[t].status = last'.results[i]]_vars

-----------------------------------------------------------------------------
(* A status call and a destroy of the same name (under Spec)                *)

\* C36: a record returned by a status call is the record of a name that is in
\* the registry when the status call returns; the registry changes only in a
\* step that is itself a return, so this is a property of the state after the
\* return of the status call.
C36_StatusRecordIsRegistered ==
    (last.op = "status" /\ last.kind = "record") => active_deployments[last.name] # 0

-----------------------------------------------------------------------------
(* A deploy call that raises (under Spec)                                   *)

\* the step is the end of a deploy call in an exception: of one that had not
\* been suspended, or of one resumed after its gather
DeployRaises ==
    /\ last'.op = "deploy"
    /\ last'.kind = "raised"
    /\ \/ ncalls' = ncalls + 1 /\ calls' = calls
       \/ \E f \in BagToSet(calls) : f.op = "deploy" /\ ReturnOf(f)

\* C37: a deploy call that ends in an exception leaves the registry as it
\* was: the entry of every name, and the record behind it, is the same before
\* and after.
C37_RaisingDeployLeavesRegistry ==
    [][DeployRaises =>
         \A n \in Names :
             /\ active_deployments'[n] = active_deployments[n]
             /\ active_deployments[n] # 0 =>
                    heap'[active_deployments[n]] = heap[active_deployments[n]]]_vars

\* a deploy of a name has raised ZeroDivisionError while a record of that name
\* is in the registry
C37_Witness ==
    /\ last.op = "deploy"
    /\ last.kind = "raised"
    /\ last.error = "ZeroDivisionError"
    /\ active_deployments[last.name] # 0
    /\ heap[active_deployments[last.name]].topology_name = last.name

-----------------------------------------------------------------------------
(* Concurrent destroys of one registered name (under SpecDestroys)          *)

\* the returns so far that are a destroy's True
TrueReturns == {i \in 1..Len(trail) : trail[i].op = "destroy" /\ trail[i].kind = "True"}

\* C38: of the destroy calls on a registered name, in flight together or not,
\* exactly one returns True and every other returns False; none raises; and
\* the record is absent once the first has returned.
C38_ExactlyOneDestroySucceeds ==
    trail # <<>> =>
        /\ Cardinality(TrueReturns) = 1
        /\ \A i \in 1..Len(trail) : trail[i].kind \in {"True", "False"}
        /\ active_deployments[<<"A">>] = 0

\* two destroys have returned, True and then False, and the second had found
\* the entry and dispatched its destroys before the first removed the entry
C38_Witness ==
    /\ Len(trail) = 2
    /\ trail[1].kind = "True"
    /\ trail[2].kind = "False"
    /\ last.op = "destroy"
    /\ last.kind = "False"
    /\ "destroy_topology" \in Range(last.remote)
    /\ active_deployments[<<"A">>] = 0

-----------------------------------------------------------------------------
(* distribute_nodes over a non-empty instance list (under SpecPart)         *)

\* distribute_nodes was applied to a non-empty list of instances and a
\* topology with at least one node
DistributedOverInstances ==
    /\ inp.fn = "distribute_nodes"
    /\ out # NoResult
    /\ Len(inp.available_instances) >= 1
    /\ Len(inp.topology.nodes) >= 1

\* C39: distribute_nodes, given a non-empty list of instances, with or without
\* repeated ids, and a topology with at least one node, returns a distribution
\* whose node lists are pairwise disjoint, whose union is the full node set,
\* and whose keys are distinct instances of the list.
C39_EveryNodeOnOneInstance ==
    DistributedOverInstances =>
        /\ out.kind = "dist"
        /\ PairwiseDisjoint(out.dist)
        /\ Covered(out.dist) = Range(NodeNames(inp.topology))
        /\ \A p \in 1..Len(out.dist) : out.dist[p].k \in Range(inp.available_instances)
        /\ \A p, q \in 1..Len(out.dist) : p # q => out.dist[p].k # out.dist[q].k

\* the list names one instance twice, both are taken, and nodes are left over
\* when the list is used up
C39_Witness ==
    /\ DistributedOverInstances
    /\ Len(inp.available_instances) = 2
    /\ inp.available_instances[1] = inp.available_instances[2]
    /\ Len(inp.topology.nodes) > 2 * inp.max_nodes
    /\ out.kind = "dist"
    /\ Len(out.dist) = 1

=============================================================================
